---- MODULE Spec2Model ----
(***************************************************************************)
(* Model of the hl-paper-mode matching and risk engine                     *)
(* (src/src/hl_paper: engine.py, execution.py, math_core.py, models.py).   *)
(*                                                                         *)
(* Numbers.  The program computes in Python floats.  The model computes in *)
(* fixed point over the integers:                                          *)
(*   - a size is a whole number of base units;                             *)
(*   - a price is a whole number of 1/PriceScale dollars;                  *)
(*   - money (balance, notional, fee, PnL, margin) is a whole number of    *)
(*     1/MoneyScale dollars, MoneyScale = PriceScale, so that a size times *)
(*     a price is a money amount with no rounding;                         *)
(*   - a dimensionless ratio (slippage, mmr) is a whole number of          *)
(*     1/RatioScale.                                                       *)
(* Every float division, and every product with a ratio, is rounded down   *)
(* to the grid; sums, differences and size-by-price products are exact.    *)
(*                                                                         *)
(* Dictionaries.  Python dicts iterate in insertion order, and both the    *)
(* liquidation loop and the resting-order scan depend on it, so positions  *)
(* and open_orders are sequences of records in insertion order; the key is *)
(* the record's symbol, respectively order_id.                             *)
(***************************************************************************)
EXTENDS Integers, Sequences, FiniteSets, TLC

VARIABLES
    balance,      \* AccountState.balance
    positions,    \* AccountState.positions, in insertion order
    open_orders,  \* AccountState.open_orders, in insertion order
    prices,       \* Engine.prices: symbol -> mid, NoPrice when absent
    last,         \* the last call and what it returned
    nextOid,      \* number of order ids drawn so far
    issued,       \* history: the order ids drawn so far
    nEvents,      \* number of events the engine has handled
    ledger,       \* history: fees charged, PnL realized, liquidation closes
    replay,       \* history: a fresh account to which every applied fill is re-applied
    lpc,          \* check_liquidations run on its own: "idle", "loop", "returned"
    lclosed,      \* check_liquidations: the list `closed`
    lstart,       \* check_liquidations: the positions when it was called
    tpc,          \* _check_limit_fills run on its own: "idle", "scan", "returned", "raised"
    tsymbol,      \* _check_limit_fills: the argument `symbol`
    ti,           \* _check_limit_fills: place of the for loop in open_orders
    tremove,      \* _check_limit_fills: the list `to_remove`
    fhist,        \* apply_fill_to_position run on its own: the fills applied so far
    arg,          \* pure-function harness: the arguments
    ret,          \* pure-function harness: the value returned
    snapshots,    \* StateStore: the rows of table snapshots, in insertion order
    saved,        \* history: the state given to the last save_snapshot, None before
    loaded,       \* what load_snapshot returned; Pending before the call
    nSaves,       \* number of save_snapshot calls so far
    hdata,        \* per HTTP handler: broadcast_state's `data`
    hleft,        \* per HTTP handler: the clients broadcast_state has yet to send to
    ws_clients,   \* create_app: the set ws_clients
    sent,         \* the last (client, data) sent over a websocket, None before
    spc,          \* snapshot_loop: "idle", "sleep", "write" (data serialized, write awaited)
    sdata,        \* save_snapshot's `data`
    quiet,        \* history: the engine's states between events
    fpc,          \* subscribe_all_mids: "idle", "connect", "subscribe", "recv", "backoff", "dead"
    fexc,         \* subscribe_all_mids: the exception that ended it, "none" before
    bcast,        \* per HTTP handler: where broadcast_state is and its set iterator
    wsopen        \* the websocket clients whose connection is open

vars == <<balance, positions, open_orders, prices, last, nextOid, issued, nEvents,
          ledger, replay, lpc, lclosed, lstart, tpc, tsymbol, ti, tremove, fhist,
          arg, ret, snapshots, saved, loaded, nSaves, hdata, hleft,
          ws_clients, sent, spc, sdata, quiet, fpc, fexc, bcast, wsopen>>

engineVars == <<balance, positions, open_orders, prices, last, nextOid, issued, nEvents,
                ledger, replay>>
loopVars == <<lpc, lclosed, lstart>>
tickVars == <<tpc, tsymbol, ti, tremove>>
fillVars == <<fhist>>
pureVars == <<arg, ret>>
storeVars == <<snapshots, saved, loaded, nSaves>>
httpVars == <<hdata, hleft, ws_clients, sent>>
taskVars == <<spc, sdata, quiet>>
feedVars == <<fpc, fexc>>
bcastVars == <<bcast, wsopen>>
ioVars == <<storeVars, httpVars, taskVars, feedVars, bcastVars>>

-----------------------------------------------------------------------------
(* Number representation *)

PriceScale == 200
MoneyScale == PriceScale
RatioScale == 1000 * 1000

Dollars(d) == d * MoneyScale
Price(d) == d * PriceScale

-----------------------------------------------------------------------------
(* config.py (not among the sources; values from the configuration table) *)

TICK_SIZE == PriceScale \div 10                       \* 0.1
TAKER_FEE_RATE == [num |-> 9, den |-> 20000]          \* 0.00045
STARTING_BALANCE == Dollars(10000)                    \* 10_000.0

-----------------------------------------------------------------------------
(* models.py *)

BUY == "BUY"
SELL == "SELL"
Side == {BUY, SELL}
MARKET == "MARKET"
LIMIT == "LIMIT"
OrderType == {MARKET, LIMIT}
USD == "USD"
BASE == "BASE"
SizeUnit == {USD, BASE}

NoPrice == 0     \* dict.get(...) is None
NoId == 0        \* Fill.order_id is None
None == [none |-> TRUE]
IsNone(x) == "none" \in DOMAIN x

\* what a call run on its own returned; Pending before the call
Returned(v) == [value |-> v]
Pending == None

Position(symbol, side, size, entry_price, leverage, mmr) ==
    [symbol |-> symbol, side |-> side, size |-> size,
     entry_price |-> entry_price, leverage |-> leverage, mmr |-> mmr]

Fill(symbol, side, size, price, fee, order_id) ==
    [symbol |-> symbol, side |-> side, size |-> size, price |-> price,
     fee |-> fee, order_id |-> order_id]

OpenOrder(order_id, symbol, side, order_type, size, limit_price, leverage, reduce_only) ==
    [order_id |-> order_id, symbol |-> symbol, side |-> side,
     order_type |-> order_type, size |-> size, limit_price |-> limit_price,
     leverage |-> leverage, reduce_only |-> reduce_only]

AccountState(bal, pos) == [balance |-> bal, positions |-> pos]

(* dict operations on a sequence of records keyed by field `symbol` *)
RECURSIVE IndexOf(_, _, _)
IndexOf(seq, key, i) ==
    IF i > Len(seq) THEN 0
    ELSE IF seq[i].symbol = key THEN i
    ELSE IndexOf(seq, key, i + 1)

HasPos(pos, symbol) == IndexOf(pos, symbol, 1) # 0
GetPos(pos, symbol) == pos[IndexOf(pos, symbol, 1)]

\* d[key] = value: an existing key keeps its place, a new key goes last
SetPos(pos, p) ==
    IF HasPos(pos, p.symbol)
    THEN [pos EXCEPT ![IndexOf(pos, p.symbol, 1)] = p]
    ELSE Append(pos, p)

\* Faulty variant, for sensitivity: the entry is emptied and left in the dict
DelPos_LeavesEmpty(pos, symbol) ==
    LET k == IndexOf(pos, symbol, 1)
    IN  [pos EXCEPT ![k].size = 0]

\* del d[key]
DelPos(pos, symbol) ==
    LET k == IndexOf(pos, symbol, 1)
    IN  SubSeq(pos, 1, k - 1) \o SubSeq(pos, k + 1, Len(pos))

-----------------------------------------------------------------------------
(* math_core.py *)

Sign(side) == IF side = BUY THEN 1 ELSE -1

calc_upnl(side, size, mark_price, entry_price) ==
    Sign(side) * size * (mark_price - entry_price)

\* sum(calc_upnl(p.side, p.size, mark_price, p.entry_price) for p in positions)
RECURSIVE SumUpnl(_, _)
SumUpnl(pos, mark_price) ==
    IF pos = <<>> THEN 0
    ELSE calc_upnl(Head(pos).side, Head(pos).size, mark_price,
                   Head(pos).entry_price)
         + SumUpnl(Tail(pos), mark_price)

\* one mark_price for every position, whatever its symbol
calc_equity(bal, pos, mark_price) ==
    bal + SumUpnl(pos, mark_price)

\* Python's round(x) of the quotient num / den, den > 0: the nearest
\* integer, an exact half going to the even neighbour
round(num, den) ==
    LET q == num \div den
        r == num % den
    IN  IF 2 * r < den THEN q
        ELSE IF 2 * r > den THEN q + 1
        ELSE IF q % 2 = 0 THEN q ELSE q + 1

\* round(v, 10): v is a multiple of 1 / PriceScale, which has at most three
\* decimals, so that the tenth decimal is already exact
round10(v) == v - (v % 1)

round_to_tick(price, tick) ==
    IF tick <= 0 THEN price ELSE round10(round(price, tick) * tick)

round_to_step(size, step) ==
    IF step <= 0 THEN size ELSE round10(round(size, step) * step)

calc_maintenance_margin(size, price, max_leverage) ==
    (size * price) \div (2 * max_leverage)

\* Faulty variant, for sensitivity: equity equal to the margin is liquidated too
is_liquidatable_AtMargin(equity, total_mm, has_positions) ==
    IF ~has_positions THEN FALSE ELSE equity <= total_mm

is_liquidatable(equity, total_mm, has_positions) ==
    IF ~has_positions THEN FALSE ELSE equity < total_mm

SLIPPAGE_NOTIONAL == 100000
SLIPPAGE_RATE == RatioScale \div 10000                 \* 0.0001

calc_slippage(notional) ==
    ((notional \div MoneyScale) * SLIPPAGE_RATE) \div SLIPPAGE_NOTIONAL

\* Faulty variant, for sensitivity: the slippage is added for either side
apply_slippage_IgnoresSide(price, side, slippage) ==
    price + (price * slippage) \div RatioScale

apply_slippage(price, side, slippage) ==
    IF side = BUY
    THEN price + (price * slippage) \div RatioScale
    ELSE price - (price * slippage) \div RatioScale

\* Faulty variant, for sensitivity: the side is ignored
calc_rpnl_Unsigned(side, entry_price, exit_price, closed_size) ==
    (exit_price - entry_price) * closed_size

calc_rpnl(side, entry_price, exit_price, closed_size) ==
    Sign(side) * (exit_price - entry_price) * closed_size

convert_size(size_value, size_unit, exec_price) ==
    IF size_unit = USD THEN size_value \div exec_price ELSE size_value

calc_exec_price(mid_price, side, size_value, size_unit) ==
    LET base_size == convert_size(size_value, size_unit, mid_price)
        mid_notional == base_size * mid_price
        slippage == calc_slippage(mid_notional)
    IN  apply_slippage(mid_price, side, slippage)

calc_fee(notional, fee_rate) == (notional * fee_rate.num) \div fee_rate.den

\* Faulty variant, for sensitivity: the initial margin ratio 1 / leverage
Mmr_Initial(leverage) == RatioScale \div leverage

Mmr(leverage) == RatioScale \div (2 * leverage)

-----------------------------------------------------------------------------
(* execution.py *)

calc_spread(mid_price, tick) ==
    LET half == tick \div 2
    IN  [bid |-> mid_price - half, ask |-> mid_price + half]

execute_market_order(symbol, side, size_value, size_unit, mid_price) ==
    LET exec_price == calc_exec_price(mid_price, side, size_value, size_unit)
        base_size == convert_size(size_value, size_unit, exec_price)
        notional == base_size * exec_price
        fee == calc_fee(notional, TAKER_FEE_RATE)
    IN  Fill(symbol, side, base_size, exec_price, fee, NoId)

\* Faulty variant, for sensitivity: the cross test is strict
check_limit_fill_Strict(order, mid_price) ==
    LET s == calc_spread(mid_price, TICK_SIZE)
        notional == order.size * order.limit_price
        fee == calc_fee(notional, TAKER_FEE_RATE)
    IN  IF \/ (order.side = BUY /\ s.ask < order.limit_price)
           \/ (order.side = SELL /\ s.bid > order.limit_price)
        THEN Fill(order.symbol, order.side, order.size, order.limit_price,
                  fee, order.order_id)
        ELSE None

check_limit_fill(order, mid_price) ==
    LET s == calc_spread(mid_price, TICK_SIZE)
        notional == order.size * order.limit_price
        fee == calc_fee(notional, TAKER_FEE_RATE)
    IN  IF \/ (order.side = BUY /\ s.ask <= order.limit_price)
           \/ (order.side = SELL /\ s.bid >= order.limit_price)
        THEN Fill(order.symbol, order.side, order.size, order.limit_price,
                  fee, order.order_id)
        ELSE None

\* The result of a call on the account: the exception raised ("none" on a
\* normal return) and the account as the call left it.
Outcome(raised, bal, pos) == [raised |-> raised, balance |-> bal, positions |-> pos]

\* Faulty variant, for sensitivity: a flip realizes PnL on the whole fill
apply_fill_to_position_FlipRealizesFill(state, fill, leverage) ==
    LET symbol == fill.symbol
        pos == GetPos(state.positions, symbol)
    IN  IF ~HasPos(state.positions, symbol)
        THEN Outcome("none", state.balance - fill.fee,
                     SetPos(state.positions,
                            Position(symbol, fill.side, fill.size, fill.price,
                                     leverage, Mmr(leverage))))
        ELSE IF pos.side = fill.side
        THEN IF leverage # pos.leverage
             THEN Outcome("ValueError", state.balance, state.positions)
             ELSE LET new_size == pos.size + fill.size
                  IN  IF new_size = 0
                      THEN Outcome("ZeroDivisionError", state.balance, state.positions)
                      ELSE Outcome("none", state.balance - fill.fee,
                                   SetPos(state.positions,
                                          [pos EXCEPT !.size = new_size,
                                                      !.entry_price =
                                                          (pos.size * pos.entry_price
                                                               + fill.size * fill.price)
                                                              \div new_size]))
        ELSE IF fill.size < pos.size
        THEN LET rpnl == calc_rpnl(pos.side, pos.entry_price, fill.price, fill.size)
             IN  Outcome("none", state.balance + rpnl - fill.fee,
                         SetPos(state.positions,
                                [pos EXCEPT !.size = pos.size - fill.size]))
        ELSE IF fill.size = pos.size
        THEN LET rpnl == calc_rpnl(pos.side, pos.entry_price, fill.price, fill.size)
             IN  Outcome("none", state.balance + rpnl - fill.fee,
                         DelPos(state.positions, symbol))
        ELSE LET rpnl == calc_rpnl(pos.side, pos.entry_price, fill.price, fill.size)
                 remainder == fill.size - pos.size
             IN  Outcome("none", state.balance + rpnl - fill.fee,
                         SetPos(state.positions,
                                Position(symbol, fill.side, remainder, fill.price,
                                         leverage, Mmr(leverage))))

\* Faulty variant, for sensitivity: an increase averages the two prices without their sizes
apply_fill_to_position_PlainAverage(state, fill, leverage) ==
    LET symbol == fill.symbol
        pos == GetPos(state.positions, symbol)
    IN  IF ~HasPos(state.positions, symbol)
        THEN Outcome("none", state.balance - fill.fee,
                     SetPos(state.positions,
                            Position(symbol, fill.side, fill.size, fill.price,
                                     leverage, Mmr(leverage))))
        ELSE IF pos.side = fill.side
        THEN IF leverage # pos.leverage
             THEN Outcome("ValueError", state.balance, state.positions)
             ELSE Outcome("none", state.balance - fill.fee,
                          SetPos(state.positions,
                                 [pos EXCEPT !.size = pos.size + fill.size,
                                             !.entry_price =
                                                 (pos.entry_price + fill.price) \div 2]))
        ELSE IF fill.size < pos.size
        THEN LET rpnl == calc_rpnl(pos.side, pos.entry_price, fill.price, fill.size)
             IN  Outcome("none", state.balance + rpnl - fill.fee,
                         SetPos(state.positions,
                                [pos EXCEPT !.size = pos.size - fill.size]))
        ELSE IF fill.size = pos.size
        THEN LET rpnl == calc_rpnl(pos.side, pos.entry_price, fill.price, fill.size)
             IN  Outcome("none", state.balance + rpnl - fill.fee,
                         DelPos(state.positions, symbol))
        ELSE LET close_size == pos.size
                 rpnl == calc_rpnl(pos.side, pos.entry_price, fill.price, close_size)
                 remainder == fill.size - close_size
             IN  Outcome("none", state.balance + rpnl - fill.fee,
                         SetPos(state.positions,
                                Position(symbol, fill.side, remainder, fill.price,
                                         leverage, Mmr(leverage))))

apply_fill_to_position(state, fill, leverage) ==
    LET symbol == fill.symbol
        pos == GetPos(state.positions, symbol)
    IN  IF ~HasPos(state.positions, symbol)
        THEN \* open new position
            Outcome("none", state.balance - fill.fee,
                    SetPos(state.positions,
                           Position(symbol, fill.side, fill.size, fill.price,
                                    leverage, Mmr(leverage))))
        ELSE IF pos.side = fill.side
        THEN \* increase: leverage must match
            IF leverage # pos.leverage
            THEN Outcome("ValueError", state.balance, state.positions)
            ELSE LET new_size == pos.size + fill.size
                 IN  IF new_size = 0
                     THEN Outcome("ZeroDivisionError", state.balance, state.positions)
                     ELSE LET new_entry ==
                                  (pos.size * pos.entry_price + fill.size * fill.price)
                                      \div new_size
                          IN  Outcome("none", state.balance - fill.fee,
                                      SetPos(state.positions,
                                             [pos EXCEPT !.size = new_size,
                                                         !.entry_price = new_entry]))
        ELSE IF fill.size < pos.size
        THEN \* reduce
            LET rpnl == calc_rpnl(pos.side, pos.entry_price, fill.price, fill.size)
            IN  Outcome("none", state.balance + rpnl - fill.fee,
                        SetPos(state.positions,
                               [pos EXCEPT !.size = pos.size - fill.size]))
        ELSE IF fill.size = pos.size
        THEN \* close
            LET rpnl == calc_rpnl(pos.side, pos.entry_price, fill.price, fill.size)
            IN  Outcome("none", state.balance + rpnl - fill.fee,
                        DelPos(state.positions, symbol))
        ELSE \* flip: close existing, open remainder opposite
            LET close_size == pos.size
                rpnl == calc_rpnl(pos.side, pos.entry_price, fill.price, close_size)
                remainder == fill.size - close_size
            IN  Outcome("none", state.balance + rpnl - fill.fee,
                        SetPos(state.positions,
                               Position(symbol, fill.side, remainder, fill.price,
                                        leverage, Mmr(leverage))))

-----------------------------------------------------------------------------
(* engine.py *)

\* The engine's data: self.state and self.prices.
Engine(bal, pos, orders, px) ==
    [balance |-> bal, positions |-> pos, open_orders |-> orders, prices |-> px]

\* dict operations on open_orders, keyed by order_id
RECURSIVE OrderIndex(_, _, _)
OrderIndex(orders, oid, i) ==
    IF i > Len(orders) THEN 0
    ELSE IF orders[i].order_id = oid THEN i
    ELSE OrderIndex(orders, oid, i + 1)

HasOrder(orders, oid) == OrderIndex(orders, oid, 1) # 0

SetOrder(orders, order) ==
    IF HasOrder(orders, order.order_id)
    THEN [orders EXCEPT ![OrderIndex(orders, order.order_id, 1)] = order]
    ELSE Append(orders, order)

DelOrder(orders, oid) ==
    LET k == OrderIndex(orders, oid, 1)
    IN  SubSeq(orders, 1, k - 1) \o SubSeq(orders, k + 1, Len(orders))

RECURSIVE DelOrders(_, _)
DelOrders(orders, to_remove) ==
    IF to_remove = <<>> THEN orders
    ELSE DelOrders(DelOrder(orders, Head(to_remove)), Tail(to_remove))

\* self.prices.get(symbol, default)
PriceOr(px, symbol, default) == IF px[symbol] # NoPrice THEN px[symbol] ELSE default

\* The for loop of check_liquidations over positions[i..]: the running
\* totals, and the first position with the smallest upnl (worst = 0 stands
\* for worst_upnl = inf, no position seen yet).
RECURSIVE LiqTotals(_, _, _, _)
RECURSIVE LiqTotals_LastWins(_, _, _, _)
\* Faulty variant, for sensitivity: a position whose upnl equals the smallest so far replaces it
LiqTotals_LastWins(pos, px, i, acc) ==
    IF i > Len(pos) THEN acc
    ELSE LET p == pos[i]
             mark == PriceOr(px, p.symbol, p.entry_price)
             upnl == Sign(p.side) * p.size * (mark - p.entry_price)
             better == acc.worst = 0 \/ upnl <= acc.worst_upnl
         IN  LiqTotals_LastWins(pos, px, i + 1,
                 [total_upnl |-> acc.total_upnl + upnl,
                  total_mm |-> acc.total_mm
                                 + calc_maintenance_margin(p.size, mark, p.leverage),
                  worst |-> IF better THEN i ELSE acc.worst,
                  worst_upnl |-> IF better THEN upnl ELSE acc.worst_upnl])

LiqTotals(pos, px, i, acc) ==
    IF i > Len(pos) THEN acc
    ELSE LET p == pos[i]
             mark == PriceOr(px, p.symbol, p.entry_price)
             upnl == Sign(p.side) * p.size * (mark - p.entry_price)
             better == acc.worst = 0 \/ upnl < acc.worst_upnl
         IN  LiqTotals(pos, px, i + 1,
                 [total_upnl |-> acc.total_upnl + upnl,
                  total_mm |-> acc.total_mm
                                 + calc_maintenance_margin(p.size, mark, p.leverage),
                  worst |-> IF better THEN i ELSE acc.worst,
                  worst_upnl |-> IF better THEN upnl ELSE acc.worst_upnl])

LiqTotalsOf(pos, px) ==
    LiqTotals(pos, px, 1, [total_upnl |-> 0, total_mm |-> 0, worst |-> 0, worst_upnl |-> 0])

\* Faulty variant, for sensitivity: the exit test compares the balance, not the equity
LiqStops_IgnoresUpnl(bal, pos, px) ==
    \/ pos = <<>>
    \/ LET t == LiqTotalsOf(pos, px)
       IN  ~is_liquidatable(bal, t.total_mm, TRUE)

\* The two exits of the while loop: no positions, or not liquidatable.
LiqStops(bal, pos, px) ==
    \/ pos = <<>>
    \/ LET t == LiqTotalsOf(pos, px)
       IN  ~is_liquidatable(bal + t.total_upnl, t.total_mm, TRUE)

\* Faulty variant, for sensitivity: the close realizes the PnL and leaves the position in the dict
LiqClose_KeepsPosition(bal, pos, px) ==
    LET t == LiqTotalsOf(pos, px)
        worst_symbol == pos[t.worst].symbol
        p == GetPos(pos, worst_symbol)
        mark == PriceOr(px, worst_symbol, p.entry_price)
        rpnl == calc_rpnl(p.side, p.entry_price, mark, p.size)
    IN  [balance |-> bal + rpnl,
         positions |-> pos,
         closed |-> [symbol |-> worst_symbol, position |-> p, mark |-> mark]]

\* Faulty variant, for sensitivity: the close is made at the entry price and realizes nothing
LiqClose_AtEntry(bal, pos, px) ==
    LET t == LiqTotalsOf(pos, px)
        worst_symbol == pos[t.worst].symbol
        p == GetPos(pos, worst_symbol)
        mark == PriceOr(px, worst_symbol, p.entry_price)
        rpnl == calc_rpnl(p.side, p.entry_price, p.entry_price, p.size)
    IN  [balance |-> bal + rpnl,
         positions |-> DelPos(pos, worst_symbol),
         closed |-> [symbol |-> worst_symbol, position |-> p, mark |-> mark]]

\* Faulty variant, for sensitivity: the close is charged the taker fee
LiqClose_ChargesFee(bal, pos, px) ==
    LET t == LiqTotalsOf(pos, px)
        worst_symbol == pos[t.worst].symbol
        p == GetPos(pos, worst_symbol)
        mark == PriceOr(px, worst_symbol, p.entry_price)
        rpnl == calc_rpnl(p.side, p.entry_price, mark, p.size)
    IN  [balance |-> bal + rpnl - calc_fee(p.size * mark, TAKER_FEE_RATE),
         positions |-> DelPos(pos, worst_symbol),
         closed |-> [symbol |-> worst_symbol, position |-> p, mark |-> mark]]

\* One iteration that does not stop: close the worst position at its mark.
LiqClose(bal, pos, px) ==
    LET t == LiqTotalsOf(pos, px)
        worst_symbol == pos[t.worst].symbol
        p == GetPos(pos, worst_symbol)
        mark == PriceOr(px, worst_symbol, p.entry_price)
        rpnl == calc_rpnl(p.side, p.entry_price, mark, p.size)
    IN  [balance |-> bal + rpnl,
         positions |-> DelPos(pos, worst_symbol),
         closed |-> [symbol |-> worst_symbol, position |-> p, mark |-> mark]]

\* check_liquidations: the account it leaves and the closes it made, in order.
RECURSIVE LiqLoop(_, _, _, _)
LiqLoop(bal, pos, px, closed) ==
    IF LiqStops(bal, pos, px)
    THEN [balance |-> bal, positions |-> pos, closed |-> closed]
    ELSE LET c == LiqClose(bal, pos, px)
         IN  LiqLoop(c.balance, c.positions, px, Append(closed, c.closed))

\* Faulty variant, for sensitivity: an account left without positions has its debt written off
check_liquidations_SettlesDeficit(bal, pos, px) ==
    LET r == LiqLoop(bal, pos, px, <<>>)
    IN  [r EXCEPT !.balance = IF r.positions = <<>> /\ r.balance < 0 THEN 0 ELSE @]

check_liquidations(bal, pos, px) == LiqLoop(bal, pos, px, <<>>)

NoFill == None

\* What a handler did: the engine as it left it, the record it returned
\* (status "raised" when an exception left the handler instead), the fills
\* it applied with the position each met, and the liquidation closes.
Done(e, status, reason, fill, order_id, applied, liq_ran, closed) ==
    [engine |-> e, status |-> status, reason |-> reason, fill |-> fill,
     order_id |-> order_id, applied |-> applied, liq_ran |-> liq_ran,
     closed |-> closed]

Applied(pos, fill, leverage) ==
    [fill |-> fill, leverage |-> leverage,
     had |-> HasPos(pos, fill.symbol),
     before |-> IF HasPos(pos, fill.symbol) THEN GetPos(pos, fill.symbol) ELSE None]

\* Faulty variant, for sensitivity: the fill is applied and the liquidation loop is not run
ApplyWithoutLiquidation(e, fill, leverage, order_id) ==
    LET out == apply_fill_to_position(AccountState(e.balance, e.positions), fill, leverage)
    IN  IF out.raised = "ValueError"
        THEN Done(e, "rejected", "leverage mismatch", NoFill, NoId, <<>>, FALSE, <<>>)
        ELSE IF out.raised # "none"
        THEN Done(e, "raised", out.raised, NoFill, NoId, <<>>, FALSE, <<>>)
        ELSE Done(Engine(out.balance, out.positions, e.open_orders, e.prices),
                  "filled", "", fill, order_id,
                  <<Applied(e.positions, fill, leverage)>>, FALSE, <<>>)

\* Faulty variant, for sensitivity: a liquidation that closes every position also clears the book
ApplyThenLiquidate_TearsDown(e, fill, leverage, order_id) ==
    LET out == apply_fill_to_position(AccountState(e.balance, e.positions), fill, leverage)
        liq == check_liquidations(out.balance, out.positions, e.prices)
    IN  IF out.raised = "ValueError"
        THEN Done(e, "rejected", "leverage mismatch", NoFill, NoId, <<>>, FALSE, <<>>)
        ELSE IF out.raised # "none"
        THEN Done(e, "raised", out.raised, NoFill, NoId, <<>>, FALSE, <<>>)
        ELSE Done(Engine(liq.balance, liq.positions,
                         IF liq.closed # <<>> /\ liq.positions = <<>>
                         THEN <<>> ELSE e.open_orders, e.prices),
                  "filled", "", fill, order_id,
                  <<Applied(e.positions, fill, leverage)>>, TRUE, liq.closed)

\* The shared tail of _execute_market and _handle_limit: apply the fill,
\* reject on ValueError, else run the liquidation loop and report filled.
ApplyThenLiquidate(e, fill, leverage, order_id) ==
    LET out == apply_fill_to_position(AccountState(e.balance, e.positions), fill, leverage)
        liq == check_liquidations(out.balance, out.positions, e.prices)
    IN  IF out.raised = "ValueError"
        THEN Done(e, "rejected", "leverage mismatch", NoFill, NoId, <<>>, FALSE, <<>>)
        ELSE IF out.raised # "none"
        THEN Done(e, "raised", out.raised, NoFill, NoId, <<>>, FALSE, <<>>)
        ELSE Done(Engine(liq.balance, liq.positions, e.open_orders, e.prices),
                  "filled", "", fill, order_id,
                  <<Applied(e.positions, fill, leverage)>>, TRUE, liq.closed)

_execute_market(e, intent, mid) ==
    LET fill == execute_market_order(intent.symbol, intent.side, intent.size_value,
                                     intent.size_unit, mid)
    IN  ApplyThenLiquidate(e, fill, intent.leverage, NoId)

\* Faulty variant, for sensitivity: an order that rests is charged the taker fee when it is placed
_handle_limit_FeeOnRest(e, intent, mid, uuid) ==
    LET base_size == convert_size(intent.size_value, intent.size_unit, mid)
        order == OpenOrder(uuid, intent.symbol, intent.side, intent.order_type,
                           base_size, intent.limit_price, intent.leverage,
                           intent.reduce_only)
        fill == check_limit_fill(order, mid)
        fee == calc_fee(order.size * order.limit_price, TAKER_FEE_RATE)
    IN  IF ~IsNone(fill)
        THEN ApplyThenLiquidate(e, fill, intent.leverage, order.order_id)
        ELSE Done(Engine(e.balance - fee, e.positions,
                         SetOrder(e.open_orders, order), e.prices),
                  "resting", "", NoFill, order.order_id, <<>>, FALSE, <<>>)

_handle_limit(e, intent, mid, uuid) ==
    LET base_size == convert_size(intent.size_value, intent.size_unit, mid)
        order == OpenOrder(uuid, intent.symbol, intent.side, intent.order_type,
                           base_size, intent.limit_price, intent.leverage,
                           intent.reduce_only)
        fill == check_limit_fill(order, mid)
    IN  IF ~IsNone(fill)
        THEN ApplyThenLiquidate(e, fill, intent.leverage, order.order_id)
        ELSE Done(Engine(e.balance, e.positions, SetOrder(e.open_orders, order), e.prices),
                  "resting", "", NoFill, order.order_id, <<>>, FALSE, <<>>)

\* Faulty variant, for sensitivity: an order whose fill raises ValueError is left in the book
RECURSIVE ScanOrders_KeepsRejected(_, _, _, _, _)
ScanOrders_KeepsRejected(orders, symbol, mid, i, acc) ==
    IF i > Len(orders) THEN acc
    ELSE LET order == orders[i]
             fill == check_limit_fill(order, mid)
             out == apply_fill_to_position(acc.state, fill, order.leverage)
         IN  IF order.symbol # symbol \/ IsNone(fill)
             THEN ScanOrders_KeepsRejected(orders, symbol, mid, i + 1, acc)
             ELSE IF out.raised = "ZeroDivisionError"
             THEN [acc EXCEPT !.raised = out.raised]
             ELSE ScanOrders_KeepsRejected(orders, symbol, mid, i + 1,
                      [raised |-> "none",
                       state |-> AccountState(out.balance, out.positions),
                       to_remove |-> IF out.raised = "none"
                                     THEN Append(acc.to_remove, order.order_id)
                                     ELSE acc.to_remove,
                       applied |-> IF out.raised = "none"
                                   THEN Append(acc.applied,
                                               Applied(acc.state.positions, fill,
                                                       order.leverage))
                                   ELSE acc.applied])

\* The for loop of _check_limit_fills over open_orders[i..].
RECURSIVE ScanOrders(_, _, _, _, _)
ScanOrders(orders, symbol, mid, i, acc) ==
    IF i > Len(orders) THEN acc
    ELSE LET order == orders[i]
             fill == check_limit_fill(order, mid)
             out == apply_fill_to_position(acc.state, fill, order.leverage)
         IN  IF order.symbol # symbol \/ IsNone(fill)
             THEN ScanOrders(orders, symbol, mid, i + 1, acc)
             ELSE IF out.raised = "ZeroDivisionError"
             THEN [acc EXCEPT !.raised = out.raised]
             ELSE ScanOrders(orders, symbol, mid, i + 1,
                      [raised |-> "none",
                       state |-> AccountState(out.balance, out.positions),
                       to_remove |-> Append(acc.to_remove, order.order_id),
                       applied |-> IF out.raised = "none"
                                   THEN Append(acc.applied,
                                               Applied(acc.state.positions, fill,
                                                       order.leverage))
                                   ELSE acc.applied])

\* Faulty variant, for sensitivity: the liquidation loop is run whether or not an order was removed
_check_limit_fills_AlwaysLiquidates(e, symbol) ==
    LET mid == e.prices[symbol]
        scan == ScanOrders(e.open_orders, symbol, mid, 1,
                           [raised |-> "none",
                            state |-> AccountState(e.balance, e.positions),
                            to_remove |-> <<>>, applied |-> <<>>])
        liq == check_liquidations(scan.state.balance, scan.state.positions, e.prices)
    IN  IF mid = NoPrice
        THEN Done(e, "returned", "", NoFill, NoId, <<>>, FALSE, <<>>)
        ELSE IF scan.raised # "none"
        THEN Done(Engine(scan.state.balance, scan.state.positions, e.open_orders, e.prices),
                  "raised", scan.raised, NoFill, NoId, scan.applied, FALSE, <<>>)
        ELSE Done(Engine(liq.balance, liq.positions,
                         DelOrders(e.open_orders, scan.to_remove), e.prices),
                  "returned", "", NoFill, NoId, scan.applied, TRUE, liq.closed)

_check_limit_fills(e, symbol) ==
    LET mid == e.prices[symbol]
        scan == ScanOrders(e.open_orders, symbol, mid, 1,
                           [raised |-> "none",
                            state |-> AccountState(e.balance, e.positions),
                            to_remove |-> <<>>, applied |-> <<>>])
        liq == check_liquidations(scan.state.balance, scan.state.positions, e.prices)
    IN  IF mid = NoPrice
        THEN Done(e, "returned", "", NoFill, NoId, <<>>, FALSE, <<>>)
        ELSE IF scan.raised # "none"
        THEN Done(Engine(scan.state.balance, scan.state.positions, e.open_orders, e.prices),
                  "raised", scan.raised, NoFill, NoId, scan.applied, FALSE, <<>>)
        ELSE IF scan.to_remove # <<>>
        THEN Done(Engine(liq.balance, liq.positions,
                         DelOrders(e.open_orders, scan.to_remove), e.prices),
                  "returned", "", NoFill, NoId, scan.applied, TRUE, liq.closed)
        ELSE Done(Engine(scan.state.balance, scan.state.positions, e.open_orders, e.prices),
                  "returned", "", NoFill, NoId, scan.applied, FALSE, <<>>)

on_price_update(e, symbol, price) ==
    _check_limit_fills([e EXCEPT !.prices[symbol] = price], symbol)

\* Faulty variant, for sensitivity: the liquidation loop is run on entry, before the intent is validated
on_order_LiquidatesFirst(e, intent, uuid) ==
    LET liq == check_liquidations(e.balance, e.positions, e.prices)
        e2 == Engine(liq.balance, liq.positions, e.open_orders, e.prices)
        mid == e2.prices[intent.symbol]
        pos == GetPos(e2.positions, intent.symbol)
    IN  IF mid = NoPrice
        THEN Done(e2, "rejected", "no price available", NoFill, NoId, <<>>, TRUE, liq.closed)
        ELSE IF /\ HasPos(e2.positions, intent.symbol)
                /\ pos.side = intent.side
                /\ intent.leverage # pos.leverage
        THEN Done(e2, "rejected", "leverage mismatch", NoFill, NoId, <<>>, TRUE, liq.closed)
        ELSE IF intent.order_type = MARKET
        THEN _execute_market(e2, intent, mid)
        ELSE _handle_limit(e2, intent, mid, uuid)

\* Faulty variant, for sensitivity: a reduce_only order that would open or increase a position is rejected
on_order_HonoursReduceOnly(e, intent, uuid) ==
    LET mid == e.prices[intent.symbol]
        pos == GetPos(e.positions, intent.symbol)
    IN  IF mid = NoPrice
        THEN Done(e, "rejected", "no price available", NoFill, NoId, <<>>, FALSE, <<>>)
        ELSE IF /\ HasPos(e.positions, intent.symbol)
                /\ pos.side = intent.side
                /\ intent.leverage # pos.leverage
        THEN Done(e, "rejected", "leverage mismatch", NoFill, NoId, <<>>, FALSE, <<>>)
        ELSE IF /\ intent.reduce_only
                /\ (~HasPos(e.positions, intent.symbol) \/ pos.side = intent.side)
        THEN Done(e, "rejected", "reduce only", NoFill, NoId, <<>>, FALSE, <<>>)
        ELSE IF intent.order_type = MARKET
        THEN _execute_market(e, intent, mid)
        ELSE _handle_limit(e, intent, mid, uuid)

on_order(e, intent, uuid) ==
    LET mid == e.prices[intent.symbol]
        pos == GetPos(e.positions, intent.symbol)
    IN  IF mid = NoPrice
        THEN Done(e, "rejected", "no price available", NoFill, NoId, <<>>, FALSE, <<>>)
        ELSE IF /\ HasPos(e.positions, intent.symbol)
                /\ pos.side = intent.side
                /\ intent.leverage # pos.leverage
        THEN Done(e, "rejected", "leverage mismatch", NoFill, NoId, <<>>, FALSE, <<>>)
        ELSE IF intent.order_type = MARKET
        THEN _execute_market(e, intent, mid)
        ELSE _handle_limit(e, intent, mid, uuid)

\* Faulty variant, for sensitivity: the liquidation loop is run after the order is removed
on_cancel_Liquidates(e, order_id) ==
    LET liq == check_liquidations(e.balance, e.positions, e.prices)
    IN  IF ~HasOrder(e.open_orders, order_id)
        THEN Done(e, "not_found", "", NoFill, NoId, <<>>, FALSE, <<>>)
        ELSE Done(Engine(liq.balance, liq.positions,
                         DelOrder(e.open_orders, order_id), e.prices),
                  "cancelled", "", NoFill, order_id, <<>>, TRUE, liq.closed)

\* Faulty variant, for sensitivity: an unknown id removes the oldest resting order
on_cancel_PopsOldest(e, order_id) ==
    IF ~HasOrder(e.open_orders, order_id)
    THEN Done([e EXCEPT !.open_orders = IF @ = <<>> THEN @ ELSE Tail(@)],
              "not_found", "", NoFill, NoId, <<>>, FALSE, <<>>)
    ELSE Done([e EXCEPT !.open_orders = DelOrder(e.open_orders, order_id)],
              "cancelled", "", NoFill, order_id, <<>>, FALSE, <<>>)

on_cancel(e, order_id) ==
    IF ~HasOrder(e.open_orders, order_id)
    THEN Done(e, "not_found", "", NoFill, NoId, <<>>, FALSE, <<>>)
    ELSE Done([e EXCEPT !.open_orders = DelOrder(e.open_orders, order_id)],
              "cancelled", "", NoFill, order_id, <<>>, FALSE, <<>>)

-----------------------------------------------------------------------------
(* Bounds and inputs *)

MaxEvents == 4          \* events fed to one engine
MaxLiqPositions == 2    \* positions of an account handed to check_liquidations

Symbols == {"BTC", "ETH"}
AllSymbols == Symbols \cup {"SOL"}
HalfTick == TICK_SIZE \div 2

\* mids of the price feed: 99.00, 99.95 and 101.00
Mids == {Price(99), Price(100) - HalfTick, Price(101)}
\* ETH takes market orders only, of one size and leverage, and its feed leaves
\* out the middle price
LimitSymbols == {"BTC"}
MidsOf(symbol) == IF symbol \in LimitSymbols THEN Mids ELSE {Price(99), Price(101)}
LimitPrices == {Price(100)}
Leverages == {50, 100}
MarketSizes == {<<0, BASE>>, <<5000, BASE>>, <<Dollars(500000), USD>>}
MarketSizesOf(symbol) == IF symbol \in LimitSymbols THEN MarketSizes ELSE {<<5000, BASE>>}
LeveragesOf(symbol) == IF symbol \in LimitSymbols THEN Leverages ELSE {50}
LimitSizes == {<<0, BASE>>, <<5000, BASE>>}
LimitLeverages == {50}

OrderIntent(symbol, side, order_type, size_value, size_unit, leverage, limit_price, reduce_only) ==
    [symbol |-> symbol, side |-> side, order_type |-> order_type,
     size_value |-> size_value, size_unit |-> size_unit, leverage |-> leverage,
     limit_price |-> limit_price, reduce_only |-> reduce_only]

MarketIntentsOn(sym) ==
    {OrderIntent(sym, side, MARKET, sz[1], sz[2], lev, NoPrice, FALSE) :
        side \in Side, sz \in MarketSizesOf(sym), lev \in LeveragesOf(sym)}

MarketIntents == UNION {MarketIntentsOn(sym) : sym \in Symbols}

LimitIntents ==
    {OrderIntent(sym, side, LIMIT, sz[1], sz[2], lev, lp, ro) :
        sym \in LimitSymbols, side \in Side, sz \in LimitSizes, lev \in LimitLeverages,
        lp \in LimitPrices, ro \in {FALSE}}

Intents == MarketIntents \cup LimitIntents

-----------------------------------------------------------------------------
(* History *)

Min(a, b) == IF a < b THEN a ELSE b

\* No call of apply_fill_to_position yet: the number of calls, and of the
\* fills applied their number, summed size, summed size * price and summed
\* fee, the first one's symbol, side and leverage, and whether every call so
\* far had that symbol, side and leverage.
NoFills == [calls |-> 0, n |-> 0, size |-> 0, notional |-> 0, fees |-> 0,
            symbol |-> "", side |-> "", leverage |-> 0, same |-> TRUE]

FillHistory(h, fill, leverage, raised) ==
    LET first == h.calls = 0
        same == /\ h.same
                /\ raised = "none"
                /\ first \/ (/\ fill.symbol = h.symbol
                             /\ fill.side = h.side
                             /\ leverage = h.leverage)
    IN  IF raised # "none"
        THEN [h EXCEPT !.calls = @ + 1, !.same = same]
        ELSE [calls |-> h.calls + 1,
              n |-> h.n + 1,
              size |-> h.size + fill.size,
              notional |-> h.notional + fill.size * fill.price,
              fees |-> h.fees + fill.fee,
              symbol |-> IF first THEN fill.symbol ELSE h.symbol,
              side |-> IF first THEN fill.side ELSE h.side,
              leverage |-> IF first THEN leverage ELSE h.leverage,
              same |-> same]

\* PnL an applied fill realized: none unless it met a position of the other
\* side, and then on the part of the position it closed.
RealizedBy(a) ==
    IF a.had /\ a.before.side # a.fill.side
    THEN Sign(a.before.side) * (a.fill.price - a.before.entry_price)
             * Min(a.fill.size, a.before.size)
    ELSE 0

RealizedByClose(c) ==
    Sign(c.position.side) * (c.mark - c.position.entry_price) * c.position.size

RECURSIVE SumFees(_)
SumFees(applied) ==
    IF applied = <<>> THEN 0 ELSE Head(applied).fill.fee + SumFees(Tail(applied))

RECURSIVE SumRealized(_)
SumRealized(applied) ==
    IF applied = <<>> THEN 0 ELSE RealizedBy(Head(applied)) + SumRealized(Tail(applied))

RECURSIVE SumCloses(_)
SumCloses(closed) ==
    IF closed = <<>> THEN 0 ELSE RealizedByClose(Head(closed)) + SumCloses(Tail(closed))

Ledger(l, d) ==
    [fees |-> l.fees + SumFees(d.applied),
     rpnl |-> l.rpnl + SumRealized(d.applied) + SumCloses(d.closed),
     liq_closes |-> l.liq_closes + Len(d.closed)]

\* Re-apply the fills to the replay account, in order.
RECURSIVE Replay(_, _)
Replay(acct, applied) ==
    IF applied = <<>> THEN acct
    ELSE LET a == Head(applied)
             out == apply_fill_to_position(acct, a.fill, a.leverage)
         IN  Replay(AccountState(out.balance, out.positions), Tail(applied))

-----------------------------------------------------------------------------
(* The engine fed with events *)

Handlers == {"h1", "h2"}       \* HTTP requests in flight at a time
Clients == {"c1"}              \* websocket clients

\* broadcast_state is not running: no response is owed, no iterator exists
NoBroadcast ==
    [pc |-> "idle", used |-> 0, at |-> {}, seen |-> {}, cur |-> None, dead |-> {}]

\* no adapter has run: the snapshot table is empty, nothing was saved or
\* loaded, no request is in flight, no websocket is connected, the snapshot
\* task and the feed task are not started
IoIdle ==
    /\ snapshots = <<>>
    /\ saved = None
    /\ loaded = Pending
    /\ nSaves = 0
    /\ hdata = [h \in Handlers |-> None]
    /\ hleft = [h \in Handlers |-> {}]
    /\ ws_clients = {}
    /\ sent = None
    /\ spc = "idle"
    /\ sdata = None
    /\ quiet = {}
    /\ fpc = "idle"
    /\ fexc = "none"
    /\ bcast = [h \in Handlers |-> NoBroadcast]
    /\ wsopen = {}

TheEngine == Engine(balance, positions, open_orders, prices)

\* The last call: which handler, the order id it was given (on_cancel), how
\* it ended, the order id it returned, how many fills it applied and how many
\* positions its liquidation loop closed.
Call(op, arg_id, d) ==
    [op |-> op, arg_id |-> arg_id, status |-> d.status, reason |-> d.reason,
     order_id |-> d.order_id,
     fills |-> Len(d.applied), liq_ran |-> d.liq_ran, closes |-> Len(d.closed)]

Commit(d) ==
    /\ balance' = d.engine.balance
    /\ positions' = d.engine.positions
    /\ open_orders' = d.engine.open_orders
    /\ prices' = d.engine.prices
    /\ ledger' = Ledger(ledger, d)
    /\ replay' = Replay(replay, d.applied)
    /\ nEvents' = nEvents + 1
    /\ UNCHANGED <<loopVars, tickVars, fillVars, pureVars, ioVars>>

PriceUpdate ==
    \E symbol \in Symbols : \E price \in MidsOf(symbol) :
        LET d == on_price_update(TheEngine, symbol, price)
        IN  /\ lpc = "idle"
            /\ nEvents < MaxEvents
            /\ Commit(d)
            /\ last' = Call("price", NoId, d)
            /\ UNCHANGED <<nextOid, issued>>

\* uuid.uuid4(): a random id.  The draw is a free choice among ids never
\* drawn before (two of them, so that two runs can draw differently); that a
\* draw repeats an earlier one has probability 2^-122 and is left out.
IdChoices == 2

\* Faulty variant, for sensitivity: the id is the number of resting orders plus one
Uuid4_BookSize == {Len(open_orders) + 1}

Uuid4 == (1..(nextOid + IdChoices)) \ issued

\* the ids a cancel request can name: every id drawn so far and one never drawn
CancelIds == issued \cup {CHOOSE id \in Uuid4 : TRUE}

\* on_order draws an id only on the way through _handle_limit
Uuid4For(intent) == IF intent.order_type = LIMIT THEN Uuid4 ELSE {NoId}

Order ==
    \E intent \in Intents : \E uuid \in Uuid4For(intent) :
        LET d == on_order(TheEngine, intent, uuid)
        IN  /\ lpc = "idle"
            /\ nEvents < MaxEvents
            /\ Commit(d)
            /\ last' = Call("order", NoId, d)
            /\ nextOid' = IF d.order_id # NoId THEN nextOid + 1 ELSE nextOid
            /\ issued' = IF d.order_id # NoId THEN issued \cup {uuid} ELSE issued

Cancel ==
    \E order_id \in CancelIds :
        LET d == on_cancel(TheEngine, order_id)
        IN  /\ lpc = "idle"
            /\ nEvents < MaxEvents
            /\ Commit(d)
            /\ last' = Call("cancel", order_id, d)
            /\ UNCHANGED <<nextOid, issued>>

NoCall == [op |-> "init", arg_id |-> NoId, status |-> "", reason |-> "",
           order_id |-> NoId, fills |-> 0, liq_ran |-> FALSE, closes |-> 0]

Init ==
    /\ balance = STARTING_BALANCE
    /\ positions = <<>>
    /\ open_orders = <<>>
    /\ prices = [s \in AllSymbols |-> NoPrice]
    /\ last = NoCall
    /\ nextOid = 0
    /\ issued = {}
    /\ tpc = "idle"
    /\ tsymbol = ""
    /\ ti = 0
    /\ tremove = <<>>
    /\ fhist = NoFills
    /\ nEvents = 0
    /\ ledger = [fees |-> 0, rpnl |-> 0, liq_closes |-> 0]
    /\ replay = AccountState(STARTING_BALANCE, <<>>)
    /\ lpc = "idle"
    /\ lclosed = <<>>
    /\ lstart = <<>>
    /\ arg = None
    /\ ret = None
    /\ IoIdle

Next == PriceUpdate \/ Order \/ Cancel

Spec == Init /\ [][Next]_vars

-----------------------------------------------------------------------------
(* check_liquidations run on its own, one loop iteration per step, from any *)
(* account and price book                                                   *)

LiqBalances == {Dollars(0 - 1000), Dollars(4000), Dollars(10000)}
LiqMarks == {NoPrice, Price(99), Price(101)}
LiqSizes == {0, 5000}

LiqPositionRecords ==
    {Position(sym, side, size, Price(100), 50, Mmr(50)) :
        sym \in AllSymbols, side \in Side, size \in LiqSizes}

\* dicts of at most MaxLiqPositions positions, in every insertion order
LiqAccounts ==
    {ps \in UNION {[1..k -> LiqPositionRecords] : k \in 0..MaxLiqPositions} :
        \A i, j \in DOMAIN ps : i # j => ps[i].symbol # ps[j].symbol}

LiqInit ==
    /\ balance \in LiqBalances
    /\ positions \in LiqAccounts
    /\ open_orders = <<>>
    /\ prices \in [AllSymbols -> LiqMarks]
    /\ last = NoCall
    /\ nextOid = 0
    /\ issued = {}
    /\ tpc = "idle"
    /\ tsymbol = ""
    /\ ti = 0
    /\ tremove = <<>>
    /\ fhist = NoFills
    /\ nEvents = 0
    /\ ledger = [fees |-> 0, rpnl |-> 0, liq_closes |-> 0]
    /\ replay = AccountState(balance, positions)
    /\ lpc = "loop"
    /\ lclosed = <<>>
    /\ lstart = positions
    /\ arg = None
    /\ ret = None
    /\ IoIdle

\* an iteration that closes the worst position and goes round again
LiqIterate ==
    /\ lpc = "loop"
    /\ ~LiqStops(balance, positions, prices)
    /\ LET c == LiqClose(balance, positions, prices)
       IN  /\ balance' = c.balance
           /\ positions' = c.positions
           /\ lclosed' = Append(lclosed, c.closed.symbol)
    /\ UNCHANGED <<open_orders, prices, last, nextOid, issued, nEvents, ledger, replay,
                   lpc, lstart, tickVars, fillVars, pureVars, ioVars>>

\* an iteration that breaks out of the loop: return closed
LiqReturn ==
    /\ lpc = "loop"
    /\ LiqStops(balance, positions, prices)
    /\ lpc' = "returned"
    /\ UNCHANGED <<engineVars, lclosed, lstart, tickVars, fillVars, pureVars, ioVars>>

LiqNext == LiqIterate \/ LiqReturn

LiqSpec == LiqInit /\ [][LiqNext]_vars

-----------------------------------------------------------------------------
(* An engine constructed on a given account, Engine(state): the account has  *)
(* a balance, at most one position and a book of resting orders; no price    *)
(* has arrived yet.                                                          *)

MaxBookOrders == 2      \* resting orders of a given account

StartBalances == {Dollars(0), Dollars(10000)}

StartPositions(levs) ==
    {<<>>} \cup {<<Position("BTC", side, 5000, Price(100), lev, Mmr(lev))>> :
                    side \in Side, lev \in levs}

BookOrderRecords(id, levs) ==
    {OpenOrder(id, "BTC", side, LIMIT, 5000, Price(100), lev, FALSE) :
        side \in Side, lev \in levs}
    \cup {OpenOrder(id, "ETH", BUY, LIMIT, 5000, Price(100), 50, FALSE)}

\* books of at most MaxBookOrders orders; the k-th order has id k
Books(levs) ==
    {b \in UNION {[1..k -> UNION {BookOrderRecords(id, levs) : id \in 1..MaxBookOrders}] :
                     k \in 0..MaxBookOrders} :
        \A i \in DOMAIN b : b[i].order_id = i}

\* the engine constructed on an account whose position and orders have
\* leverages among levs
EngineOn(levs) ==
    /\ balance \in StartBalances
    /\ positions \in StartPositions(levs)
    /\ open_orders \in Books(levs)
    /\ prices = [s \in AllSymbols |-> NoPrice]
    /\ last = NoCall
    /\ nextOid = Len(open_orders)
    /\ issued = {open_orders[i].order_id : i \in DOMAIN open_orders}
    /\ nEvents = 0
    /\ ledger = [fees |-> 0, rpnl |-> 0, liq_closes |-> 0]
    /\ replay = AccountState(balance, positions)
    /\ lpc = "idle"
    /\ lclosed = <<>>
    /\ lstart = <<>>
    /\ tpc = "idle"
    /\ tsymbol = ""
    /\ ti = 0
    /\ tremove = <<>>
    /\ fhist = NoFills
    /\ arg = None
    /\ ret = None
    /\ IoIdle

StartInit == EngineOn(LimitLeverages)
TickInit == EngineOn(Leverages)

-----------------------------------------------------------------------------
(* Events fed to such an engine *)

MaxStartEvents == 2     \* events fed to an engine constructed on a given account

StartPriceUpdate == nEvents < MaxStartEvents /\ PriceUpdate
StartOrder == nEvents < MaxStartEvents /\ Order
StartCancel == nEvents < MaxStartEvents /\ Cancel

StartNext == StartPriceUpdate \/ StartOrder \/ StartCancel

StartSpec == StartInit /\ [][StartNext]_vars

-----------------------------------------------------------------------------
(* on_price_update run on such an engine, one iteration of the for loop of   *)
(* _check_limit_fills per step                                               *)

\* self.prices[symbol] = price; mid is not None; to_remove = []
TickBegin ==
    /\ tpc = "idle"
    /\ \E symbol \in Symbols : \E price \in MidsOf(symbol) :
           /\ prices' = [prices EXCEPT ![symbol] = price]
           /\ tsymbol' = symbol
    /\ tpc' = "scan"
    /\ ti' = 1
    /\ tremove' = <<>>
    /\ last' = [NoCall EXCEPT !.op = "price"]
    /\ UNCHANGED <<balance, positions, open_orders, nextOid, issued, nEvents, ledger,
                   replay, loopVars, fillVars, pureVars, ioVars>>

\* one iteration of the for loop, on open_orders[ti]
TickScan ==
    /\ tpc = "scan"
    /\ ti <= Len(open_orders)
    /\ LET acc == ScanOrders(<<open_orders[ti]>>, tsymbol, prices[tsymbol], 1,
                             [raised |-> "none",
                              state |-> AccountState(balance, positions),
                              to_remove |-> tremove, applied |-> <<>>])
       IN  IF acc.raised # "none"
           THEN /\ tpc' = "raised"
                /\ last' = [last EXCEPT !.status = "raised", !.reason = acc.raised]
                /\ UNCHANGED <<balance, positions, ti, tremove>>
           ELSE /\ balance' = acc.state.balance
                /\ positions' = acc.state.positions
                /\ tremove' = acc.to_remove
                /\ ti' = ti + 1
                /\ last' = [last EXCEPT !.fills = @ + Len(acc.applied)]
                /\ tpc' = tpc
    /\ UNCHANGED <<open_orders, prices, nextOid, issued, nEvents, ledger, replay,
                   tsymbol, loopVars, fillVars, pureVars, ioVars>>

\* after the loop: delete the orders of to_remove, and run the liquidation
\* loop if there was one
TickEnd ==
    /\ tpc = "scan"
    /\ ti > Len(open_orders)
    /\ open_orders' = DelOrders(open_orders, tremove)
    /\ LET liq == check_liquidations(balance, positions, prices)
       IN  IF tremove # <<>>
           THEN /\ balance' = liq.balance
                /\ positions' = liq.positions
                /\ last' = [last EXCEPT !.status = "returned", !.liq_ran = TRUE,
                                        !.closes = Len(liq.closed)]
           ELSE /\ last' = [last EXCEPT !.status = "returned"]
                /\ UNCHANGED <<balance, positions>>
    /\ tpc' = "returned"
    /\ UNCHANGED <<prices, nextOid, issued, nEvents, ledger, replay, tsymbol, ti,
                   tremove, loopVars, fillVars, pureVars, ioVars>>

TickNext == TickBegin \/ TickScan \/ TickEnd

TickSpec == TickInit /\ [][TickNext]_vars

-----------------------------------------------------------------------------
(* apply_fill_to_position called on a fresh AccountState, fill after fill *)

MaxFills == 3           \* calls of apply_fill_to_position on one account

FillSizes == {1000, 3000}
FillPrices == {Price(100), Price(110)}

\* fills with the fee their size and price give, as the callers compute it
Fills ==
    {Fill("BTC", side, size, price, calc_fee(size * price, TAKER_FEE_RATE), NoId) :
        side \in Side, size \in FillSizes, price \in FillPrices}
    \cup {Fill("ETH", BUY, 1000, Price(100),
                calc_fee(1000 * Price(100), TAKER_FEE_RATE), NoId)}

FillInit ==
    /\ balance = STARTING_BALANCE
    /\ positions = <<>>
    /\ open_orders = <<>>
    /\ prices = [s \in AllSymbols |-> NoPrice]
    /\ last = NoCall
    /\ nextOid = 0
    /\ issued = {}
    /\ nEvents = 0
    /\ ledger = [fees |-> 0, rpnl |-> 0, liq_closes |-> 0]
    /\ replay = AccountState(STARTING_BALANCE, <<>>)
    /\ lpc = "idle"
    /\ lclosed = <<>>
    /\ lstart = <<>>
    /\ tpc = "idle"
    /\ tsymbol = ""
    /\ ti = 0
    /\ tremove = <<>>
    /\ fhist = NoFills
    /\ arg = None
    /\ ret = None
    /\ IoIdle

\* apply_fill_to_position(state, fill, leverage): arg keeps the arguments and
\* the position the fill met, ret the exception raised ("none" on return)
ApplyFill ==
    \E fill \in Fills, leverage \in Leverages :
        LET out == apply_fill_to_position(AccountState(balance, positions), fill, leverage)
        IN  /\ fhist.calls < MaxFills
            /\ balance' = out.balance
            /\ positions' = out.positions
            /\ arg' = Applied(positions, fill, leverage)
            /\ ret' = Returned(out.raised)
            /\ fhist' = FillHistory(fhist, fill, leverage, out.raised)
            /\ UNCHANGED <<open_orders, prices, last, nextOid, issued, nEvents, ledger,
                           replay, loopVars, tickVars, ioVars>>

FillNext == ApplyFill

FillSpec == FillInit /\ [][FillNext]_vars

-----------------------------------------------------------------------------
(* Pure functions called on their own *)

Boundary(p) == {p - HalfTick - 1, p - HalfTick, p - HalfTick + 1, p,
                p + HalfTick - 1, p + HalfTick, p + HalfTick + 1}

CheckLimitFillArgs ==
    {[fn |-> "check_limit_fill",
      order |-> OpenOrder(oid, "BTC", side, LIMIT, size, lp, 50, FALSE),
      mid_price |-> mid] :
        oid \in {1, 2}, side \in Side, size \in {0, 1, 5000},
        lp \in {Price(100), Price(101)}, mid \in Boundary(Price(100))}

\* equity and margin one grid step either side of each other
IsLiquidatableArgs ==
    {[fn |-> "is_liquidatable", equity |-> total_mm + d, total_mm |-> total_mm,
      has_positions |-> has_positions] :
        total_mm \in {0, Dollars(5000)}, d \in {0 - Dollars(5000), 0 - 1, 0, 1},
        has_positions \in BOOLEAN}

\* accounts whose equity is below, at and above their maintenance margin
\* (one position of 5000 at its entry price has margin 5000.00), and
\* accounts without positions
CheckLiquidationsArgs ==
    {[fn |-> "check_liquidations", balance |-> bal, positions |-> pos,
      open_orders |-> <<>>, prices |-> px] :
        bal \in {Dollars(5000) - 1, Dollars(5000), Dollars(5000) + 1},
        pos \in LiqAccounts, px \in [AllSymbols -> LiqMarks]}

\* accounts without positions: negative, zero and positive balance, every
\* book of resting orders
NoPositionsArgs ==
    {[fn |-> "check_liquidations", balance |-> bal, positions |-> <<>>,
      open_orders |-> book, prices |-> px] :
        bal \in {0 - Dollars(1000), 0, Dollars(5000)},
        book \in Books(Leverages), px \in [AllSymbols -> LiqMarks]}

\* size values from nothing to ten times the largest order of the other
\* specifications, in either unit
ExecSizes(size_unit) ==
    IF size_unit = USD
    THEN {0, Dollars(1), Dollars(250000), Dollars(500000), Dollars(500001),
          Dollars(5000000)}
    ELSE {0, 1, 2500, 5000, 5001, 50000}

\* two size values in order, for one mid, side and unit
CalcExecPriceArgs ==
    UNION {{[fn |-> "calc_exec_price", mid_price |-> mid, side |-> side,
             size_unit |-> unit, low |-> lo, high |-> hi] :
                mid \in Mids, side \in Side, lo \in ExecSizes(unit),
                hi \in ExecSizes(unit)} : unit \in SizeUnit}

\* an engine with at most one position and one resting order, with or
\* without a BTC price, and an intent on BTC; order_id is the id uuid4 gives
OnOrderArgs ==
    {[fn |-> "on_order",
      engine |-> Engine(bal, pos, book, [s \in AllSymbols |-> IF s = "BTC" THEN mid ELSE NoPrice]),
      intent |-> intent, order_id |-> 2] :
        bal \in StartBalances, pos \in StartPositions(Leverages),
        book \in {<<>>, <<OpenOrder(1, "BTC", SELL, LIMIT, 5000, Price(101), 50, FALSE)>>},
        mid \in Mids \cup {NoPrice},
        intent \in MarketIntentsOn("BTC") \cup LimitIntents}

\* accounts of up to two positions on BTC and ETH, the marks of the symbols
\* (one of them possibly missing) and the mark_price the caller hands over
EquityPositionRecords ==
    {Position(sym, side, 5000, Price(100), 50, Mmr(50)) :
        sym \in Symbols, side \in Side}

EquityAccounts ==
    {ps \in UNION {[1..k -> EquityPositionRecords] : k \in 0..2} :
        \A i, j \in DOMAIN ps : i # j => ps[i].symbol # ps[j].symbol}

CalcEquityArgs ==
    {[fn |-> "calc_equity", balance |-> Dollars(10000), positions |-> pos,
      marks |-> px, mark_price |-> mark] :
        pos \in EquityAccounts, px \in [AllSymbols -> LiqMarks],
        mark \in LiqMarks \ {NoPrice}}

\* values from -2.50 to 2.75 in quarters and steps of -0.10, 0, 0.10 and 1.00:
\* quotients below, at and above a half, of either sign and either parity
RoundingValues == {q * (PriceScale \div 4) : q \in (0 - 10)..11}
RoundingSteps == {0 - TICK_SIZE, 0, TICK_SIZE, PriceScale}

RoundingArgs ==
    {[fn |-> fn, x |-> x, step |-> step] :
        fn \in {"round_to_tick", "round_to_step"}, x \in RoundingValues,
        step \in RoundingSteps}

PureArgs ==
    CheckLimitFillArgs \cup IsLiquidatableArgs \cup CheckLiquidationsArgs
        \cup NoPositionsArgs \cup {a \in CalcExecPriceArgs : a.low <= a.high}
        \cup OnOrderArgs \cup CalcEquityArgs \cup RoundingArgs

PureInit ==
    /\ balance = STARTING_BALANCE
    /\ positions = <<>>
    /\ open_orders = <<>>
    /\ prices = [s \in AllSymbols |-> NoPrice]
    /\ last = NoCall
    /\ nextOid = 0
    /\ issued = {}
    /\ tpc = "idle"
    /\ tsymbol = ""
    /\ ti = 0
    /\ tremove = <<>>
    /\ fhist = NoFills
    /\ nEvents = 0
    /\ ledger = [fees |-> 0, rpnl |-> 0, liq_closes |-> 0]
    /\ replay = AccountState(STARTING_BALANCE, <<>>)
    /\ lpc = "idle"
    /\ lclosed = <<>>
    /\ lstart = <<>>
    /\ arg \in PureArgs
    /\ ret = Pending
    /\ IoIdle

CallCheckLimitFill ==
    /\ ret = Pending
    /\ arg.fn = "check_limit_fill"
    /\ ret' = Returned(check_limit_fill(arg.order, arg.mid_price))
    /\ UNCHANGED <<engineVars, loopVars, tickVars, fillVars, arg, ioVars>>

CallIsLiquidatable ==
    /\ ret = Pending
    /\ arg.fn = "is_liquidatable"
    /\ ret' = Returned(is_liquidatable(arg.equity, arg.total_mm, arg.has_positions))
    /\ UNCHANGED <<engineVars, loopVars, tickVars, fillVars, arg, ioVars>>

\* Engine(state).check_liquidations() with the prices given: ret keeps the
\* engine as the call left it and the symbols it closed
CallCheckLiquidations ==
    /\ ret = Pending
    /\ arg.fn = "check_liquidations"
    /\ LET r == check_liquidations(arg.balance, arg.positions, arg.prices)
       IN  ret' = Returned([closed |-> r.closed, balance |-> r.balance,
                            positions |-> r.positions,
                            open_orders |-> arg.open_orders, prices |-> arg.prices])
    /\ UNCHANGED <<engineVars, loopVars, tickVars, fillVars, arg, ioVars>>

\* calc_exec_price at the two size values
CallCalcExecPrice ==
    /\ ret = Pending
    /\ arg.fn = "calc_exec_price"
    /\ ret' = Returned([low |-> calc_exec_price(arg.mid_price, arg.side, arg.low,
                                                arg.size_unit),
                        high |-> calc_exec_price(arg.mid_price, arg.side, arg.high,
                                                 arg.size_unit)])
    /\ UNCHANGED <<engineVars, loopVars, tickVars, fillVars, arg, ioVars>>

\* what on_order returned and the engine it left
OnOrderResult(d) ==
    [status |-> d.status, reason |-> d.reason, fill |-> d.fill, order_id |-> d.order_id,
     engine |-> d.engine]

\* the intent with reduce_only set
ReduceOnly(intent) == [intent EXCEPT !.reduce_only = TRUE]

\* two engines in the state given, one handed the intent and the other the
\* same intent with reduce_only set
CallOnOrder ==
    /\ ret = Pending
    /\ arg.fn = "on_order"
    /\ ret' = Returned([plain |-> OnOrderResult(on_order(arg.engine, arg.intent,
                                                         arg.order_id)),
                        reduce_only |-> OnOrderResult(on_order(arg.engine,
                                                               ReduceOnly(arg.intent),
                                                               arg.order_id))])
    /\ UNCHANGED <<engineVars, loopVars, tickVars, fillVars, arg, ioVars>>

CallCalcEquity ==
    /\ ret = Pending
    /\ arg.fn = "calc_equity"
    /\ ret' = Returned(calc_equity(arg.balance, arg.positions, arg.mark_price))
    /\ UNCHANGED <<engineVars, loopVars, tickVars, fillVars, arg, ioVars>>

CallRoundToTick ==
    /\ ret = Pending
    /\ arg.fn = "round_to_tick"
    /\ ret' = Returned(round_to_tick(arg.x, arg.step))
    /\ UNCHANGED <<engineVars, loopVars, tickVars, fillVars, arg, ioVars>>

CallRoundToStep ==
    /\ ret = Pending
    /\ arg.fn = "round_to_step"
    /\ ret' = Returned(round_to_step(arg.x, arg.step))
    /\ UNCHANGED <<engineVars, loopVars, tickVars, fillVars, arg, ioVars>>

PureNext ==
    \/ CallCheckLimitFill \/ CallIsLiquidatable \/ CallCheckLiquidations
    \/ CallCalcExecPrice \/ CallOnOrder \/ CallCalcEquity
    \/ CallRoundToTick \/ CallRoundToStep

PureSpec == PureInit /\ [][PureNext]_vars

-----------------------------------------------------------------------------
(* persistence.py *)

(* JSON text, as the tree of values it spells out: a number by its sign and *)
(* decimal digits, an object by its members in the order written.           *)
JsonNull == [t |-> "null"]
JsonString(str) == [t |-> "string", s |-> str]
JsonBool(b) == [t |-> "bool", b |-> b]

RECURSIVE Digits(_)
Digits(n) == IF n < 10 THEN <<n>> ELSE Append(Digits(n \div 10), n % 10)

JsonNumber(n) ==
    [t |-> "number", neg |-> n < 0, digits |-> Digits(IF n < 0 THEN 0 - n ELSE n)]

Member(key, value) == [key |-> key, value |-> value]
JsonObject(members) == [t |-> "object", members |-> members]

\* Position.model_dump_json(): the fields in declaration order; an enum is
\* written as its value
DumpPosition(p) ==
    JsonObject(<<Member("symbol", JsonString(p.symbol)),
                 Member("side", JsonString(p.side)),
                 Member("size", JsonNumber(p.size)),
                 Member("entry_price", JsonNumber(p.entry_price)),
                 Member("leverage", JsonNumber(p.leverage)),
                 Member("mmr", JsonNumber(p.mmr))>>)

\* OpenOrder.model_dump_json(); limit_price is Optional: None is written null
DumpOpenOrder(o) ==
    JsonObject(<<Member("order_id", JsonNumber(o.order_id)),
                 Member("symbol", JsonString(o.symbol)),
                 Member("side", JsonString(o.side)),
                 Member("order_type", JsonString(o.order_type)),
                 Member("size", JsonNumber(o.size)),
                 Member("limit_price",
                        IF o.limit_price = NoPrice THEN JsonNull
                        ELSE JsonNumber(o.limit_price)),
                 Member("leverage", JsonNumber(o.leverage)),
                 Member("reduce_only", JsonBool(o.reduce_only))>>)

\* AccountState with its book of resting orders, as Engine.state holds it
EngineState(bal, pos, orders) ==
    [balance |-> bal, positions |-> pos, open_orders |-> orders]

\* state.model_dump_json(): each dict is written as an object keyed by its
\* keys, in insertion order
model_dump_json(state) ==
    JsonObject(<<Member("balance", JsonNumber(state.balance)),
                 Member("positions",
                        JsonObject([i \in DOMAIN state.positions |->
                                       Member(state.positions[i].symbol,
                                              DumpPosition(state.positions[i]))])),
                 Member("open_orders",
                        JsonObject([i \in DOMAIN state.open_orders |->
                                       Member(state.open_orders[i].order_id,
                                              DumpOpenOrder(state.open_orders[i]))]))>>)

RECURSIVE ParseDigits(_)
ParseDigits(ds) ==
    IF Len(ds) = 1 THEN ds[1]
    ELSE 10 * ParseDigits(SubSeq(ds, 1, Len(ds) - 1)) + ds[Len(ds)]

ParseNumber(v) == IF v.neg THEN 0 - ParseDigits(v.digits) ELSE ParseDigits(v.digits)

\* the value of the member of object v written under key
Get(v, key) ==
    v.members[CHOOSE i \in DOMAIN v.members : v.members[i].key = key].value

LoadPosition(v) ==
    Position(Get(v, "symbol").s, Get(v, "side").s, ParseNumber(Get(v, "size")),
             ParseNumber(Get(v, "entry_price")), ParseNumber(Get(v, "leverage")),
             ParseNumber(Get(v, "mmr")))

LoadOpenOrder(v) ==
    OpenOrder(ParseNumber(Get(v, "order_id")), Get(v, "symbol").s, Get(v, "side").s,
              Get(v, "order_type").s, ParseNumber(Get(v, "size")),
              IF Get(v, "limit_price").t = "null" THEN NoPrice
              ELSE ParseNumber(Get(v, "limit_price")),
              ParseNumber(Get(v, "leverage")), Get(v, "reduce_only").b)

\* AccountState.model_validate_json(text): a dict is rebuilt member by
\* member, in the order written
model_validate_json(v) ==
    EngineState(ParseNumber(Get(v, "balance")),
                [i \in DOMAIN Get(v, "positions").members |->
                    LoadPosition(Get(v, "positions").members[i].value)],
                [i \in DOMAIN Get(v, "open_orders").members |->
                    LoadOpenOrder(Get(v, "open_orders").members[i].value)])

\* a row of table snapshots
Row(id, data) == [id |-> id, data |-> data]

\* Faulty variant, for sensitivity: the old rows are kept and the new one gets the next id
save_snapshot_KeepsOld(rows, state) ==
    Append(rows, Row(Len(rows) + 1, model_dump_json(state)))

\* DELETE FROM snapshots; INSERT (id, data) VALUES (1, ?); commit
WriteSnapshot(rows, data) ==
    LET deleted == SubSeq(rows, 1, 0)
    IN  Append(deleted, Row(1, data))

\* save_snapshot: data = state.model_dump_json(), then the write
save_snapshot(rows, state) == WriteSnapshot(rows, model_dump_json(state))

\* load_snapshot: SELECT data FROM snapshots WHERE id = 1
load_snapshot(rows) ==
    IF \A i \in DOMAIN rows : rows[i].id # 1
    THEN None
    ELSE model_validate_json(rows[CHOOSE i \in DOMAIN rows : rows[i].id = 1].data)

(* A store written by an engine's snapshots and read back once: the engine  *)
(* is constructed on a given account and handles events between the saves.  *)

MaxSnapEvents == 1      \* events the engine handles
MaxSaves == 2           \* calls of save_snapshot

\* the engine is constructed on an account with at most one resting order
SnapInit == EngineOn(LimitLeverages) /\ Len(open_orders) <= 1

SnapEvent ==
    /\ nEvents < MaxSnapEvents
    /\ loaded = Pending
    /\ (PriceUpdate \/ Order \/ Cancel)

\* await store.save_snapshot(engine.state)
SaveSnapshot ==
    /\ nSaves < MaxSaves
    /\ loaded = Pending
    /\ snapshots' = save_snapshot(snapshots, EngineState(balance, positions, open_orders))
    /\ saved' = EngineState(balance, positions, open_orders)
    /\ nSaves' = nSaves + 1
    /\ UNCHANGED <<engineVars, loopVars, tickVars, fillVars, pureVars, loaded,
                   httpVars, taskVars,
                   feedVars, bcastVars>>

\* saved = await store.load_snapshot()
LoadSnapshot ==
    /\ loaded = Pending
    /\ loaded' = Returned(load_snapshot(snapshots))
    /\ UNCHANGED <<engineVars, loopVars, tickVars, fillVars, pureVars, snapshots, saved,
                   nSaves, httpVars, taskVars,
                   feedVars, bcastVars>>

SnapNext == SnapEvent \/ SaveSnapshot \/ LoadSnapshot

SnapSpec == SnapInit /\ [][SnapNext]_vars

-----------------------------------------------------------------------------------------------------------------------------------------------------
(* api.py, main.py: the tasks of one asyncio event loop.  A task runs from   *)
(* one await to the next without giving up the loop; the steps below are the *)
(* stretches between awaits.  The price-feed callback is split further, one  *)
(* step per iteration of the scan of on_price_update, to show the states an  *)
(* observer would see if it were let in.  An allMids message carries one     *)
(* mid: on_prices handles several in one stretch, one call after the other.  *)

MaxAppEvents == 2       \* engine events the adapters deliver
MaxAppSaves == 1        \* snapshots the snapshot task writes

\* engine.state.model_dump(): a copy of the account, detached from the engine
model_dump(e) == EngineState(e.balance, e.positions, e.open_orders)

\* an exception that leaves a task of the TaskGroup ends every task
Alive == tpc # "raised"

\* Faulty variant, for sensitivity: tasks preempt one another as threads would
LoopFree_Preemptive == Alive /\ quiet # {}

\* the loop can resume or start a task: none is between two of its awaits
LoopFree == Alive /\ quiet # {} /\ tpc = "idle"

\* the saved state the engine starts on: no position, two resting orders
\* on the symbol the feed reports
AppInit ==
    /\ EngineOn(LimitLeverages)
    /\ balance = Dollars(10000)
    /\ positions = <<>>
    /\ Len(open_orders) = 2
    /\ \A i \in DOMAIN open_orders : open_orders[i].symbol \in LimitSymbols

\* main(): the engine is constructed on the saved state and the tasks start
AppStart ==
    /\ quiet = {}
    /\ quiet' = {model_dump(TheEngine)}
    /\ spc' = "sleep"
    /\ UNCHANGED <<engineVars, loopVars, tickVars, fillVars, pureVars, storeVars,
                   httpVars, sdata,
                   feedVars, bcastVars>>

\* the orders the HTTP clients post
AppIntents == {intent \in LimitIntents : intent.size_value > 0}

\* The stretch of an HTTP handler from the engine call to the first await:
\* the engine call; then an HTTPException (or the engine's exception) ends
\* the handler; else broadcast_state returns at once without clients, or
\* takes data = engine.state.model_dump() and starts sending.
Handle(h, d) ==
    /\ LoopFree
    /\ hleft[h] = {}
    /\ nEvents < MaxAppEvents
    /\ balance' = d.engine.balance
    /\ positions' = d.engine.positions
    /\ open_orders' = d.engine.open_orders
    /\ prices' = d.engine.prices
    /\ ledger' = Ledger(ledger, d)
    /\ replay' = Replay(replay, d.applied)
    /\ nEvents' = nEvents + 1
    /\ quiet' = quiet \cup {model_dump(d.engine)}
    /\ IF d.status \in {"rejected", "not_found", "raised"} \/ ws_clients = {}
       THEN UNCHANGED <<hdata, hleft>>
       ELSE /\ hdata' = [hdata EXCEPT ![h] = model_dump(d.engine)]
            /\ hleft' = [hleft EXCEPT ![h] = ws_clients]
    /\ UNCHANGED <<loopVars, tickVars, fillVars, pureVars, storeVars, ws_clients, sent,
                   spc, sdata,
                   feedVars, bcastVars>>

\* post_order: result = engine.on_order(intent); await broadcast_state()
PostOrder ==
    \E h \in Handlers : \E intent \in AppIntents :
        LET uuid == CHOOSE id \in Uuid4For(intent) : TRUE
            d == on_order(TheEngine, intent, uuid)
        IN  /\ Handle(h, d)
            /\ last' = Call("order", NoId, d)
            /\ nextOid' = IF d.order_id # NoId THEN nextOid + 1 ELSE nextOid
            /\ issued' = IF d.order_id # NoId THEN issued \cup {uuid} ELSE issued

\* delete_order: result = engine.on_cancel(order_id); await broadcast_state()
DeleteOrder ==
    \E h \in Handlers : \E order_id \in CancelIds :
        LET d == on_cancel(TheEngine, order_id)
        IN  /\ Handle(h, d)
            /\ last' = Call("cancel", order_id, d)
            /\ UNCHANGED <<nextOid, issued>>

\* broadcast_state: await ws.send_json(data), one client per step
BroadcastSend ==
    \E h \in Handlers : \E ws \in hleft[h] :
        /\ LoopFree
        /\ sent' = [client |-> ws, data |-> hdata[h]]
        /\ hleft' = [hleft EXCEPT ![h] = @ \ {ws}]
        /\ UNCHANGED <<engineVars, loopVars, tickVars, fillVars, pureVars, storeVars,
                       hdata, ws_clients, taskVars,
                   feedVars, bcastVars>>

\* ws_state: the client is added and sent engine.state.model_dump()
WsConnect ==
    \E ws \in Clients \ ws_clients :
        /\ LoopFree
        /\ ws_clients' = ws_clients \cup {ws}
        /\ sent' = [client |-> ws, data |-> model_dump(TheEngine)]
        /\ UNCHANGED <<engineVars, loopVars, tickVars, fillVars, pureVars, storeVars,
                       hdata, hleft, taskVars,
                   feedVars, bcastVars>>

\* snapshot_loop wakes from its sleep; save_snapshot takes
\* data = state.model_dump_json() before its first await
SnapshotDump ==
    /\ LoopFree
    /\ spc = "sleep"
    /\ nSaves < MaxAppSaves
    /\ sdata' = model_dump_json(model_dump(TheEngine))
    /\ spc' = "write"
    /\ UNCHANGED <<engineVars, loopVars, tickVars, fillVars, pureVars, storeVars,
                   httpVars, quiet,
                   feedVars, bcastVars>>

\* the awaited DELETE, INSERT and commit of save_snapshot
SnapshotWrite ==
    /\ LoopFree
    /\ spc = "write"
    /\ snapshots' = WriteSnapshot(snapshots, sdata)
    /\ nSaves' = nSaves + 1
    /\ spc' = "sleep"
    /\ UNCHANGED <<engineVars, loopVars, tickVars, fillVars, pureVars, saved, loaded,
                   httpVars, sdata, quiet,
                   feedVars, bcastVars>>

\* subscribe_all_mids got an allMids message and calls on_prices(mids):
\* engine.on_price_update(symbol, price) begins
FeedBegin == LoopFree /\ nEvents < MaxAppEvents /\ TickBegin /\ tsymbol' \in LimitSymbols
FeedScan == Alive /\ quiet # {} /\ TickScan
FeedEnd == Alive /\ quiet # {} /\ TickEnd

\* on_price_update and on_prices have returned
FeedReturn ==
    /\ quiet # {}
    /\ tpc = "returned"
    /\ tpc' = "idle"
    /\ nEvents' = nEvents + 1
    /\ quiet' = quiet \cup {model_dump(TheEngine)}
    /\ UNCHANGED <<balance, positions, open_orders, prices, last, nextOid, issued,
                   ledger, replay, loopVars, tsymbol, ti, tremove, fillVars, pureVars,
                   storeVars, httpVars, spc, sdata,
                   feedVars, bcastVars>>

AppNext ==
    \/ AppStart
    \/ PostOrder \/ DeleteOrder \/ BroadcastSend \/ WsConnect
    \/ SnapshotDump \/ SnapshotWrite
    \/ FeedBegin \/ FeedScan \/ FeedEnd \/ FeedReturn

AppSpec == AppInit /\ [][AppNext]_vars

-----------------------------------------------------------------------------
(* api.py: broadcast_state iterating the set ws_clients while websocket      *)
(* clients come and go                                                       *)

WsClients == {"c1", "c2"}

\* the engine create_app is given, no client connected, no request in flight
WsInit == AppInit

\* iter(ws_clients): the iterator records the size of the set and, for the
\* history, its members; nothing has been visited
Iterating(b, clients) ==
    [b EXCEPT !.used = Cardinality(clients), !.at = clients, !.seen = {}, !.dead = {}]

\* `for ws in ws_clients`, the step to the next element.  The iterator raises
\* RuntimeError when the size of the set is not the one it recorded.  It
\* ends when no member is left unvisited; when the members changed at equal
\* size, a member that came in may also have been put behind the iterator.
\* At the end `for ws in dead: ws_clients.discard(ws)` runs and the handler
\* returns its result.
IterNexts(b, clients) ==
    IF Cardinality(clients) # b.used
    THEN {[clients |-> clients, b |-> [b EXCEPT !.pc = "raised", !.cur = None]]}
    ELSE {[clients |-> clients, b |-> [b EXCEPT !.pc = "send", !.cur = ws]] :
             ws \in clients \ b.seen}
         \cup (IF clients \ b.seen = {} \/ clients # b.at
               THEN {[clients |-> clients \ b.dead,
                      b |-> [b EXCEPT !.pc = "responded", !.cur = None]]}
               ELSE {})

\* ws_state up to its second await: accept, ws_clients.add(websocket),
\* send_json(engine.state.model_dump())
WsAccept ==
    \E ws \in WsClients \ (ws_clients \cup wsopen) :
        /\ wsopen' = wsopen \cup {ws}
        /\ ws_clients' = ws_clients \cup {ws}
        /\ sent' = [client |-> ws, data |-> model_dump(TheEngine)]
        /\ UNCHANGED <<engineVars, loopVars, tickVars, fillVars, pureVars, storeVars,
                       hdata, hleft, taskVars, feedVars, bcast>>

\* the client closes its connection
WsClose ==
    \E ws \in wsopen :
        /\ wsopen' = wsopen \ {ws}
        /\ UNCHANGED <<engineVars, loopVars, tickVars, fillVars, pureVars, storeVars,
                       httpVars, taskVars, feedVars, bcast>>

\* ws_state: receive_text raises WebSocketDisconnect; finally
\* ws_clients.discard(websocket)
WsDisconnect ==
    \E ws \in ws_clients \ wsopen :
        /\ ws_clients' = ws_clients \ {ws}
        /\ UNCHANGED <<engineVars, loopVars, tickVars, fillVars, pureVars, storeVars,
                       hdata, hleft, sent, taskVars, feedVars, bcast, wsopen>>

\* post_order and delete_order up to the first await: the engine call; an
\* HTTPException for a rejected order or an unknown id; else broadcast_state,
\* which returns at once without clients, or takes data, makes the iterator
\* and awaits the send to the first client
WsHandle(h, d) ==
    /\ bcast[h].pc = "idle"
    /\ balance' = d.engine.balance
    /\ positions' = d.engine.positions
    /\ open_orders' = d.engine.open_orders
    /\ prices' = d.engine.prices
    /\ ledger' = Ledger(ledger, d)
    /\ replay' = Replay(replay, d.applied)
    /\ nEvents' = nEvents + 1
    /\ IF d.status \in {"rejected", "not_found", "raised"}
       THEN /\ bcast' = [bcast EXCEPT ![h].pc = "refused"]
            /\ UNCHANGED hdata
       ELSE IF ws_clients = {}
       THEN /\ bcast' = [bcast EXCEPT ![h].pc = "responded"]
            /\ UNCHANGED hdata
       ELSE /\ hdata' = [hdata EXCEPT ![h] = model_dump(d.engine)]
            /\ \E n \in IterNexts(Iterating(bcast[h], ws_clients), ws_clients) :
                   bcast' = [bcast EXCEPT ![h] = n.b]
    /\ UNCHANGED <<loopVars, tickVars, fillVars, pureVars, storeVars, hleft, ws_clients,
                   sent, taskVars, feedVars, wsopen>>

WsPostOrder ==
    \E h \in Handlers : \E intent \in AppIntents :
        LET uuid == CHOOSE id \in Uuid4For(intent) : TRUE
            d == on_order(TheEngine, intent, uuid)
        IN  /\ WsHandle(h, d)
            /\ last' = Call("order", NoId, d)
            /\ nextOid' = IF d.order_id # NoId THEN nextOid + 1 ELSE nextOid
            /\ issued' = IF d.order_id # NoId THEN issued \cup {uuid} ELSE issued

WsDeleteOrder ==
    \E h \in Handlers : \E order_id \in CancelIds :
        LET d == on_cancel(TheEngine, order_id)
        IN  /\ WsHandle(h, d)
            /\ last' = Call("cancel", order_id, d)
            /\ UNCHANGED <<nextOid, issued>>

\* the awaited ws.send_json(data) is over: the client got the data, or the
\* send raised and the client is put on `dead`; then the loop goes on
WsSendReturns ==
    \E h \in Handlers :
        LET b == bcast[h]
            after == [b EXCEPT !.seen = @ \cup {b.cur},
                               !.dead = IF b.cur \in wsopen THEN @ ELSE @ \cup {b.cur}]
        IN  /\ b.pc = "send"
            /\ sent' = IF b.cur \in wsopen THEN [client |-> b.cur, data |-> hdata[h]]
                       ELSE sent
            /\ \E n \in IterNexts(after, ws_clients) :
                   /\ bcast' = [bcast EXCEPT ![h] = n.b]
                   /\ ws_clients' = n.clients
            /\ UNCHANGED <<engineVars, loopVars, tickVars, fillVars, pureVars, storeVars,
                           hdata, hleft, taskVars, feedVars, wsopen>>

WsNext ==
    \/ WsAccept \/ WsClose \/ WsDisconnect
    \/ WsPostOrder \/ WsDeleteOrder \/ WsSendReturns

WsSpec == WsInit /\ [][WsNext]_vars

-----------------------------------------------------------------------------
(* ws_feed.py *)

(* A websocket frame is text that json.loads rejects, or a JSON value.  A    *)
(* string that carries a price is a sequence of characters.                 *)
NotJson == [t |-> "garbage"]
JsonText(chars) == [t |-> "text", s |-> chars]

DigitChars == <<"0", "1", "2", "3", "4", "5", "6", "7", "8", "9">>
DigitOf(c) == (CHOOSE k \in DOMAIN DigitChars : DigitChars[k] = c) - 1

\* the price as the exchange writes it: its digits on the price grid
PriceText(p) == JsonText([i \in DOMAIN Digits(p) |-> DigitChars[Digits(p)[i] + 1]])

Has(v, key) == \E i \in DOMAIN v.members : v.members[i].key = key

\* float(price): the number a numeric string spells, the number itself, or
\* an exception
Float(v) ==
    IF v.t = "number" THEN [raised |-> "none", value |-> ParseNumber(v)]
    ELSE IF v.t # "text" THEN [raised |-> "TypeError", value |-> 0]
    ELSE IF v.s # <<>> /\ \A i \in DOMAIN v.s : \E k \in DOMAIN DigitChars : DigitChars[k] = v.s[i]
    THEN [raised |-> "none", value |-> ParseDigits([i \in DOMAIN v.s |-> DigitOf(v.s[i])])]
    ELSE [raised |-> "ValueError", value |-> 0]

\* what parse_all_mids returns: the exception raised, None, or the mids in
\* the order of the message
Parsed(raised, none, mids) == [raised |-> raised, none |-> none, mids |-> mids]

parse_all_mids(msg) ==
    IF msg.t # "object" THEN Parsed("AttributeError", FALSE, <<>>)
    ELSE IF ~Has(msg, "channel") \/ Get(msg, "channel") # JsonString("allMids")
    THEN Parsed("none", TRUE, <<>>)
    ELSE IF ~Has(msg, "data") \/ Get(msg, "data").t = "null"
    THEN Parsed("none", TRUE, <<>>)
    ELSE IF Get(msg, "data").t # "object" THEN Parsed("AttributeError", FALSE, <<>>)
    ELSE IF ~Has(Get(msg, "data"), "mids") THEN Parsed("none", FALSE, <<>>)
    ELSE IF Get(Get(msg, "data"), "mids").t # "object"
    THEN Parsed("AttributeError", FALSE, <<>>)
    ELSE LET mids == Get(Get(msg, "data"), "mids").members
             bad == {i \in DOMAIN mids : Float(mids[i].value).raised # "none"}
         IN  IF bad # {}
             THEN Parsed(Float(mids[CHOOSE i \in bad : \A j \in bad : i <= j].value).raised,
                         FALSE, <<>>)
             ELSE Parsed("none", FALSE,
                         [i \in DOMAIN mids |->
                             [symbol |-> mids[i].key, price |-> Float(mids[i].value).value]])

\* main.on_prices: engine.on_price_update for each mid in turn; an exception
\* of the engine leaves the callback
RECURSIVE on_prices(_, _, _)
RECURSIVE OnPricesNext(_, _, _)
OnPricesNext(d, mids, i) ==
    IF d.status = "raised"
    THEN [raised |-> d.reason, engine |-> d.engine]
    ELSE on_prices(d.engine, mids, i + 1)

on_prices(e, mids, i) ==
    IF i > Len(mids) THEN [raised |-> "none", engine |-> e]
    ELSE OnPricesNext(on_price_update(e, mids[i].symbol, mids[i].price), mids, i)

\* what one iteration of `async for raw in ws` did: the exception it raised,
\* the engine as it left it, whether on_prices was called
Iteration(raised, e, called) == [raised |-> raised, engine |-> e, called |-> called]

OnPricesCalled(r) == Iteration(r.raised, r.engine, TRUE)

\* lines 57-59, on what parse_all_mids gave
Dispatch(e, mids) ==
    IF mids.raised # "none" THEN Iteration(mids.raised, e, FALSE)
    ELSE IF mids.none THEN Iteration("none", e, FALSE)
    ELSE OnPricesCalled(on_prices(e, mids.mids, 1))

\* the body of `async for raw in ws`: a JSONDecodeError skips the message,
\* every other exception leaves the loop
Received(e, raw) ==
    IF raw.t = "garbage" THEN Iteration("none", e, FALSE)
    ELSE Dispatch(e, parse_all_mids(raw))

MaxFeedEvents == 2      \* messages that reach on_prices

AllMids(mids) ==
    JsonObject(<<Member("channel", JsonString("allMids")),
                 Member("data", JsonObject(<<Member("mids", JsonObject(mids))>>))>>)

\* the frames the exchange sends
FeedMessages ==
    {NotJson, JsonNull, JsonNumber(1), JsonObject(<<>>),
     JsonObject(<<Member("channel", JsonString("subscriptionResponse")),
                  Member("data", JsonObject(<<>>))>>),
     JsonObject(<<Member("channel", JsonString("allMids")), Member("data", JsonNull)>>),
     JsonObject(<<Member("channel", JsonString("allMids")),
                  Member("data", JsonObject(<<>>))>>),
     AllMids(<<Member("BTC", JsonText(<<"a", "b", "c">>))>>),
     AllMids(<<Member("BTC", JsonNull)>>),
     AllMids(<<>>)}
    \cup {AllMids(<<Member("BTC", PriceText(mid))>>) : mid \in Mids}
    \cup {AllMids(<<Member("BTC", JsonNumber(mid)), Member("ETH", PriceText(Price(100)))>>) :
             mid \in Mids}

\* the engine main() constructs on the saved account: an account of the
\* start states, or the one a size-0 market sell and a size-0 limit sell
\* leave behind
FeedInit ==
    \/ EngineOn(LimitLeverages)
    \/ /\ balance = Dollars(10000)
       /\ positions = <<Position("BTC", SELL, 0, Price(99), 50, Mmr(50))>>
       /\ open_orders = <<OpenOrder(1, "BTC", SELL, LIMIT, 0, Price(100), 50, FALSE)>>
       /\ prices = [s \in AllSymbols |-> NoPrice]
       /\ last = NoCall
       /\ nextOid = 1
       /\ issued = {1}
       /\ nEvents = 0
       /\ ledger = [fees |-> 0, rpnl |-> 0, liq_closes |-> 0]
       /\ replay = AccountState(balance, positions)
       /\ lpc = "idle"
       /\ lclosed = <<>>
       /\ lstart = <<>>
       /\ tpc = "idle"
       /\ tsymbol = ""
       /\ ti = 0
       /\ tremove = <<>>
       /\ fhist = NoFills
       /\ arg = None
       /\ ret = None
       /\ IoIdle

\* main(): tg.create_task(subscribe_all_mids(on_prices))
FeedStart ==
    /\ fpc = "idle"
    /\ fpc' = "connect"
    /\ UNCHANGED <<engineVars, loopVars, tickVars, fillVars, pureVars, storeVars,
                   httpVars, taskVars, fexc, bcastVars>>

\* websockets.connect(url): the connection is made, or OSError is raised
FeedConnect ==
    /\ fpc = "connect"
    /\ fpc' \in {"subscribe", "backoff"}
    /\ UNCHANGED <<engineVars, loopVars, tickVars, fillVars, pureVars, storeVars,
                   httpVars, taskVars, fexc, bcastVars>>

\* await ws.send(subscribe_msg): sent, or the connection is closed
FeedSubscribe ==
    /\ fpc = "subscribe"
    /\ fpc' \in {"recv", "backoff"}
    /\ UNCHANGED <<engineVars, loopVars, tickVars, fillVars, pureVars, storeVars,
                   httpVars, taskVars, fexc, bcastVars>>

\* the iteration's effect on the engine and on the loop
Deliver(r) ==
    /\ r.called => nEvents < MaxFeedEvents
    /\ balance' = r.engine.balance
    /\ positions' = r.engine.positions
    /\ open_orders' = r.engine.open_orders
    /\ prices' = r.engine.prices
    /\ nEvents' = IF r.called THEN nEvents + 1 ELSE nEvents
    /\ fpc' = IF r.raised = "none" THEN "recv" ELSE "dead"
    /\ fexc' = r.raised

\* one iteration of `async for raw in ws`
FeedReceive ==
    /\ fpc = "recv"
    /\ \E raw \in FeedMessages : Deliver(Received(TheEngine, raw))
    /\ UNCHANGED <<last, nextOid, issued, ledger, replay, loopVars, tickVars,
                   fillVars, pureVars, storeVars, httpVars, taskVars, bcastVars>>

\* the connection fails while receiving: ConnectionClosed or OSError is
\* raised out of the iteration and caught
FeedDisconnect ==
    /\ fpc = "recv"
    /\ fpc' = "backoff"
    /\ UNCHANGED <<engineVars, loopVars, tickVars, fillVars, pureVars, storeVars,
                   httpVars, taskVars, fexc, bcastVars>>

\* the peer closes the connection normally: the iteration ends and the
\* while loop goes round
FeedIterationEnds ==
    /\ fpc = "recv"
    /\ fpc' = "connect"
    /\ UNCHANGED <<engineVars, loopVars, tickVars, fillVars, pureVars, storeVars,
                   httpVars, taskVars, fexc, bcastVars>>

\* await asyncio.sleep(3), then round the while loop
FeedBackoff ==
    /\ fpc = "backoff"
    /\ fpc' = "connect"
    /\ UNCHANGED <<engineVars, loopVars, tickVars, fillVars, pureVars, storeVars,
                   httpVars, taskVars, fexc, bcastVars>>

FeedNext ==
    \/ FeedStart \/ FeedConnect \/ FeedSubscribe \/ FeedReceive
    \/ FeedDisconnect \/ FeedIterationEnds \/ FeedBackoff

FeedSpec == FeedInit /\ [][FeedNext]_vars

-----------------------------------------------------------------------------
(* Properties *)

MarkOf(px, p) == IF px[p.symbol] # NoPrice THEN px[p.symbol] ELSE p.entry_price

RECURSIVE Equity(_, _, _)
Equity(bal, pos, px) ==
    IF pos = <<>> THEN bal
    ELSE Equity(bal + calc_upnl(Head(pos).side, Head(pos).size,
                                MarkOf(px, Head(pos)), Head(pos).entry_price),
                Tail(pos), px)

RECURSIVE TotalMM(_, _)
TotalMM(pos, px) ==
    IF pos = <<>> THEN 0
    ELSE calc_maintenance_margin(Head(pos).size, MarkOf(px, Head(pos)),
                                 Head(pos).leverage)
             + TotalMM(Tail(pos), px)

Solvent(bal, pos, px) == pos = <<>> \/ Equity(bal, pos, px) >= TotalMM(pos, px)

\* C1: after every on_price_update returns, the account has no positions or
\* its equity at the current marks is at least its total maintenance margin.
C1_TickLeavesSolvent ==
    (last.op = "price" /\ last.status = "returned")
        => Solvent(balance, positions, prices)

\* C2: after every on_order that returns filled, the account has no
\* positions or its equity at the current marks is at least its total
\* maintenance margin.
C2_FilledOrderLeavesSolvent ==
    (last.op = "order" /\ last.status = "filled")
        => Solvent(balance, positions, prices)

\* C2 witness: an order was filled and the liquidation loop that followed
\* the fill closed a position.
C2_Witness ==
    last.op = "order" /\ last.status = "filled" /\ last.liq_ran /\ last.closes > 0

\* C3: whenever check_liquidations returns, positions is empty or balance
\* plus the sum of upnl is at least the sum of maintenance margins, each with
\* mark = prices[symbol] if present, else the entry price.
C3_ReturnsSolvent ==
    lpc = "returned" => Solvent(balance, positions, prices)

\* C3 witness: the loop returned with a position left, after closing another.
C3_Witness ==
    lpc = "returned" /\ positions # <<>> /\ lclosed # <<>>

LiqCanStep == ENABLED LiqNext

\* C4: check_liquidations terminates: every iteration that does not stop
\* removes exactly one position and adds none; the closes made and the
\* positions left add up to the positions the account had when it was called,
\* so the loop closes at most that many; and until it has returned a further
\* iteration can run.
C4_LoopTerminates ==
    [][/\ lpc' = "loop" =>
            /\ Len(positions') = Len(positions) - 1
            /\ \A i \in DOMAIN positions' : \E j \in DOMAIN positions :
                   positions'[i] = positions[j]
            /\ LiqCanStep'
       /\ Len(lclosed') + Len(positions') = Len(lstart')
       /\ Len(lclosed') <= Len(lstart')]_vars

\* C4 witness: the loop returned after closing every position of an account
\* that had more than one.
C4_Witness ==
    lpc = "returned" /\ Len(lstart) > 1 /\ Len(lclosed) = Len(lstart)

\* C5: after each event every stored position has size > 0 and is the only
\* entry stored under its symbol.
C5_NoGhostPositions ==
    \A i \in DOMAIN positions :
        /\ positions[i].size > 0
        /\ \A j \in DOMAIN positions : positions[j].symbol = positions[i].symbol => j = i

\* C6: balance = STARTING_BALANCE - fees of all applied fills + PnL realized
\* by all reduces, closes, flips and liquidation closes.
C6_BalanceIsLedger ==
    balance = STARTING_BALANCE - ledger.fees + ledger.rpnl

\* C6 witness: fees were charged, PnL was realized, and the last call's
\* liquidation loop closed a position.
C6_Witness ==
    ledger.fees > 0 /\ ledger.rpnl # 0 /\ last.closes > 0

\* C7 as claimed: replaying all applied fills against a fresh account yields
\* the engine's balance.
C7_ReplayYieldsBalance ==
    replay.balance = balance

\* C7 amended: as long as the liquidation loop has closed no position,
\* replaying all applied fills against a fresh account yields the engine's
\* balance.
C7_ReplayYieldsBalanceUnlessLiquidated ==
    ledger.liq_closes = 0 => replay.balance = balance

\* C7 witness: no liquidation close so far, and the fills applied realized PnL.
C7_Witness ==
    ledger.liq_closes = 0 /\ ledger.rpnl # 0 /\ last.fills > 0

\* C8: whenever on_order returns rejected, balance, positions, open_orders
\* and prices are as they were before the call.
C8_RejectionChangesNothing ==
    [][(last'.op = "order" /\ last'.status = "rejected")
          => UNCHANGED <<balance, positions, open_orders, prices>>]_vars

\* C8 witness: an order was rejected for its leverage while the account was
\* below its maintenance margin.
C8_Witness ==
    /\ last.op = "order" /\ last.status = "rejected"
    /\ last.reason = "leverage mismatch"
    /\ ~Solvent(balance, positions, prices)

RejectCondition(e, intent) ==
    \/ e.prices[intent.symbol] = NoPrice
    \/ \E i \in DOMAIN e.positions :
           /\ e.positions[i].symbol = intent.symbol
           /\ e.positions[i].side = intent.side
           /\ e.positions[i].leverage # intent.leverage

\* C9: on_order returns rejected if and only if the symbol has no price or a
\* position on the symbol has the intent's side and another leverage; in
\* every other case it returns filled or resting.
C9_RejectedIffNoPriceOrMismatch ==
    \A intent \in Intents :
        LET d == on_order(TheEngine, intent, CHOOSE id \in Uuid4 : TRUE)
        IN  IF RejectCondition(TheEngine, intent)
            THEN d.status = "rejected"
            ELSE d.status \in {"filled", "resting"}

\* C10: check_limit_fill returns a fill iff the order is a Buy and
\* mid + tick/2 <= limit_price, or a Sell and mid - tick/2 >= limit_price;
\* the fill is for the whole size at the limit price, with fee
\* size * limit_price * taker rate and the order's id; else no fill.
C10_CheckLimitFill ==
    (ret # Pending /\ arg.fn = "check_limit_fill") =>
        LET o == arg.order
            crosses ==
                \/ (o.side = BUY /\ 2 * arg.mid_price + TICK_SIZE <= 2 * o.limit_price)
                \/ (o.side = SELL /\ 2 * arg.mid_price - TICK_SIZE >= 2 * o.limit_price)
        IN  IF crosses
            THEN ret.value =
                     [symbol |-> o.symbol, side |-> o.side, size |-> o.size,
                      price |-> o.limit_price,
                      fee |-> (o.size * o.limit_price * TAKER_FEE_RATE.num)
                                  \div TAKER_FEE_RATE.den,
                      order_id |-> o.order_id]
            ELSE ret.value = None

\* C10 witness: a Buy whose limit equals the ask was given its fill.
C10_Witness ==
    /\ ret # Pending /\ arg.fn = "check_limit_fill" /\ ~IsNone(ret.value)
    /\ arg.order.side = BUY
    /\ arg.mid_price + HalfTick = arg.order.limit_price
    /\ ret.value.fee > 0

\* An order crosses at a mid: a Buy when mid + tick/2 <= limit_price, a Sell
\* when mid - tick/2 >= limit_price.
Crosses(order, mid) ==
    \/ (order.side = BUY /\ 2 * mid + TICK_SIZE <= 2 * order.limit_price)
    \/ (order.side = SELL /\ 2 * mid - TICK_SIZE >= 2 * order.limit_price)

\* C11: after every event on a fresh engine, no order in open_orders crosses
\* at the current mid of its symbol.
C11_NoRestingOrderCrosses ==
    \A i \in DOMAIN open_orders :
        prices[open_orders[i].symbol] # NoPrice
            => ~Crosses(open_orders[i], prices[open_orders[i].symbol])

\* C11 restricted to the events that returned: the only event that leaves a
\* crossing order in the book is one that an exception ended.
C11_NoRestingOrderCrossesOnReturn ==
    last.status # "raised" => C11_NoRestingOrderCrosses

\* C12: in the scan of a tick, when the order at hand crosses while a position
\* on its symbol has its side and another leverage, the fill is not applied
\* (balance and positions are as before), the order is put on to_remove, and
\* the scan goes on to the next order; when the tick returns, every order of
\* to_remove has left the book, every other order is still in it, and every
\* order on the symbol that crossed is on to_remove.
C12_MismatchedOrderDropped ==
    [][/\ (tpc = "scan" /\ ti <= Len(open_orders)) =>
            LET o == open_orders[ti]
            IN  (/\ o.symbol = tsymbol
                 /\ Crosses(o, prices[tsymbol])
                 /\ \E k \in DOMAIN positions :
                        /\ positions[k].symbol = o.symbol
                        /\ positions[k].side = o.side
                        /\ positions[k].leverage # o.leverage)
                => /\ balance' = balance
                   /\ positions' = positions
                   /\ tremove' = Append(tremove, o.order_id)
                   /\ tpc' = "scan"
                   /\ ti' = ti + 1
       /\ (tpc = "scan" /\ tpc' = "returned") =>
            /\ \A i \in DOMAIN open_orders :
                   (open_orders[i].symbol = tsymbol
                        /\ Crosses(open_orders[i], prices[tsymbol]))
                       => \E k \in DOMAIN tremove : tremove[k] = open_orders[i].order_id
            /\ \A i \in DOMAIN open_orders :
                   (\E j \in DOMAIN open_orders' : open_orders'[j] = open_orders[i])
                       <=> ~\E k \in DOMAIN tremove : tremove[k] = open_orders[i].order_id
            /\ Len(open_orders') = Len(open_orders) - Len(tremove)]_vars

\* C12 witness: a tick returned after two resting orders crossed on a position
\* of their side; one had another leverage and was dropped, the other was
\* applied and doubled the position.
C12_Witness ==
    /\ tpc = "returned"
    /\ Len(tremove) = 2
    /\ last.fills = 1
    /\ open_orders = <<>>
    /\ Len(positions) = 1
    /\ replay.positions # <<>>
    /\ positions[1].size = 2 * replay.positions[1].size
    /\ positions[1].leverage = replay.positions[1].leverage

\* The tick taken one loop iteration per step leaves the engine as
\* on_price_update leaves it when taken whole.
TickAgrees ==
    [][(tpc = "scan" /\ tpc' = "returned") =>
         LET d == on_price_update(Engine(replay.balance, replay.positions, open_orders,
                                         [s \in AllSymbols |-> NoPrice]),
                                  tsymbol, prices[tsymbol])
         IN  /\ balance' = d.engine.balance
             /\ positions' = d.engine.positions
             /\ open_orders' = d.engine.open_orders
             /\ last'.fills = Len(d.applied)
             /\ last'.closes = Len(d.closed)
             /\ last'.liq_ran = d.liq_ran]_vars

BookIds(orders) == {orders[i].order_id : i \in DOMAIN orders}

\* the book without its i-th order
BookWithout(orders, i) == SubSeq(orders, 1, i - 1) \o SubSeq(orders, i + 1, Len(orders))

\* C13: on_cancel of an id present in open_orders returns cancelled with that
\* id and removes exactly that order; balance, positions, prices and the other
\* orders are unchanged and no liquidation is run.
C13_CancelRemovesOnlyTheOrder ==
    [][(last'.op = "cancel" /\ last'.arg_id \in BookIds(open_orders)) =>
          /\ last'.status = "cancelled"
          /\ last'.order_id = last'.arg_id
          /\ \E i \in DOMAIN open_orders :
                 /\ open_orders[i].order_id = last'.arg_id
                 /\ open_orders' = BookWithout(open_orders, i)
          /\ UNCHANGED <<balance, positions, prices>>
          /\ ~last'.liq_ran
          /\ last'.closes = 0]_vars

\* C13 witness: an order was cancelled while the account was below its
\* maintenance margin; the position and another resting order are still there.
C13_Witness ==
    /\ last.op = "cancel" /\ last.status = "cancelled"
    /\ positions # <<>>
    /\ ~Solvent(balance, positions, prices)
    /\ open_orders # <<>>

CancelAgain == on_cancel(TheEngine, last.arg_id)

\* C14: on_cancel of an id that is not in open_orders returns not_found and
\* leaves balance, positions, open_orders and prices unchanged; after an id
\* was cancelled, cancelling it again returns not_found and changes nothing.
C14_UnknownIdNotFound ==
    [][/\ (last'.op = "cancel" /\ last'.arg_id \notin BookIds(open_orders)) =>
            /\ last'.status = "not_found"
            /\ last'.order_id = NoId
            /\ UNCHANGED <<balance, positions, open_orders, prices>>
            /\ ~last'.liq_ran
       /\ (last'.op = "cancel" /\ last'.status = "cancelled") =>
            /\ CancelAgain'.status = "not_found"
            /\ CancelAgain'.engine = TheEngine']_vars

\* C14 witness: a cancel named an id that was drawn earlier and is no longer
\* in the book (filled, dropped or cancelled), was answered not_found, and
\* other orders rest in the book.
C14_Witness ==
    /\ last.op = "cancel" /\ last.status = "not_found"
    /\ last.arg_id \in issued
    /\ open_orders # <<>>

C16_SameOrderSameOutcome ==
    \A intent \in Intents : \A u1, u2 \in Uuid4For(intent) :
        on_order(TheEngine, intent, u1) = on_order(TheEngine, intent, u2)

\* the position stored under a symbol, in a dict known to have one
Held(pos, symbol) == CHOOSE p \in {pos[i] : i \in DOMAIN pos} : p.symbol = symbol

Holds(pos, symbol) == \E i \in DOMAIN pos : pos[i].symbol = symbol

\* a fill creates the position it leaves: it met no position on its symbol,
\* or one of the other side and smaller than the fill
Creates(a) ==
    \/ ~a.had
    \/ (a.before.side # a.fill.side /\ a.fill.size > a.before.size)

\* C17: after every applied fill each stored position has
\* mmr = 1/(2*leverage); the position a fill creates (first open or flip) has
\* the leverage the fill came with, and every position that was there before
\* and is still there has the leverage and mmr it had.
C17_MmrFollowsLeverage ==
    [][ret'.value = "none" =>
          \A k \in DOMAIN positions' :
              LET q == positions'[k]
              IN  /\ q.mmr = RatioScale \div (2 * q.leverage)
                  /\ IF q.symbol = arg'.fill.symbol /\ Creates(arg')
                     THEN q.leverage = arg'.leverage
                     ELSE /\ Holds(positions, q.symbol)
                          /\ q.leverage = Held(positions, q.symbol).leverage
                          /\ q.mmr = Held(positions, q.symbol).mmr]_vars

\* C17 witness: a fill at another leverage flipped a position of 2000 that
\* an open of 3000 and a reduce of 1000 had left.
C17_Witness ==
    /\ fhist.n = 3
    /\ ret # Pending /\ ret.value = "none"
    /\ arg.had /\ arg.before.side # arg.fill.side /\ arg.fill.size > arg.before.size
    /\ arg.leverage # arg.before.leverage
    /\ arg.before.size = 2000
    /\ fhist.size = 7000

\* C18: after a sequence of fills of one symbol, side and leverage applied
\* from no position, the position has size = sum of s_i, its entry price is
\* sum of s_i * p_i / sum of s_i (to the price grid: rounded down once per
\* increase), and balance has gone down by the sum of the fees.
C18_SameSideFillsAverage ==
    (fhist.n >= 1 /\ fhist.same) =>
        /\ Len(positions) = 1
        /\ positions[1].symbol = fhist.symbol
        /\ positions[1].side = fhist.side
        /\ positions[1].leverage = fhist.leverage
        /\ positions[1].size = fhist.size
        /\ positions[1].entry_price * fhist.size <= fhist.notional
        /\ fhist.notional - positions[1].entry_price * fhist.size
               <= (fhist.n - 1) * fhist.size
        /\ fhist.n > 1 =>
               fhist.notional - positions[1].entry_price * fhist.size
                   < (fhist.n - 1) * fhist.size
        /\ balance = STARTING_BALANCE - fhist.fees

\* C18 witness: three fills of different sizes and prices on one side, whose
\* average price is not on the price grid.
C18_Witness ==
    /\ fhist.n = 3 /\ fhist.same
    /\ fhist.size = 7000
    /\ positions[1].entry_price * fhist.size # fhist.notional

\* C19: an opposite-side fill smaller than the position, at any leverage,
\* returns normally, leaves the position's side, entry price, leverage and
\* mmr as they were, takes fill.size off its size, leaves every other
\* position as it was, and changes balance by
\* sign(pos.side) * (fill.price - entry) * fill.size - fill.fee.
C19_ReduceKeepsEntry ==
    [][\A k \in DOMAIN positions :
          LET p == positions[k]
              f == arg'.fill
          IN  (p.symbol = f.symbol /\ p.side # f.side /\ f.size < p.size) =>
                  /\ ret'.value = "none"
                  /\ Len(positions') = Len(positions)
                  /\ positions'[k] = [p EXCEPT !.size = p.size - f.size]
                  /\ \A j \in DOMAIN positions : j # k => positions'[j] = positions[j]
                  /\ balance' = balance
                                  + (IF p.side = BUY THEN 1 ELSE 0 - 1)
                                        * (f.price - p.entry_price) * f.size
                                  - f.fee]_vars

\* C19 witness: a short position was reduced by a Buy at another leverage
\* and another price, while another position was open.
C19_Witness ==
    /\ ret # Pending /\ ret.value = "none"
    /\ arg.had /\ arg.before.side = SELL /\ arg.fill.side = BUY
    /\ arg.fill.size < arg.before.size
    /\ arg.leverage # arg.before.leverage
    /\ arg.fill.price # arg.before.entry_price
    /\ Len(positions) = 2

\* C20: an opposite-side fill of exactly the position's size returns
\* normally, removes the position of its symbol (none of either side is
\* left), leaves every other position as it was, and changes balance by
\* sign(pos.side) * (fill.price - entry) * pos.size - fill.fee.
C20_CloseDeletesPosition ==
    [][\A k \in DOMAIN positions :
          LET p == positions[k]
              f == arg'.fill
          IN  (p.symbol = f.symbol /\ p.side # f.side /\ f.size = p.size) =>
                  /\ ret'.value = "none"
                  /\ ~Holds(positions', f.symbol)
                  /\ positions' = BookWithout(positions, k)
                  /\ balance' = balance
                                  + (IF p.side = BUY THEN 1 ELSE 0 - 1)
                                        * (f.price - p.entry_price) * p.size
                                  - f.fee]_vars

\* C20 witness: a short position was closed by a Buy of its whole size at
\* another price and another leverage; the position of the other symbol is
\* the only one left.
C20_Witness ==
    /\ ret # Pending /\ ret.value = "none"
    /\ arg.had /\ arg.before.side = SELL /\ arg.fill.side = BUY
    /\ arg.fill.size = arg.before.size
    /\ arg.fill.price # arg.before.entry_price
    /\ arg.leverage # arg.before.leverage
    /\ Len(positions) = 1
    /\ positions[1].symbol # arg.fill.symbol

\* C21: an opposite-side fill larger than the position, at any leverage,
\* returns normally and puts in the position's place one whose side is the
\* fill's, whose size is fill.size - old size, whose entry price is the fill
\* price and whose leverage and mmr are those of the fill's order; every
\* other position stays as it was, and balance changes by
\* sign(old side) * (fill.price - old entry) * old size - fill.fee.
C21_FlipOpensRemainder ==
    [][\A k \in DOMAIN positions :
          LET p == positions[k]
              f == arg'.fill
          IN  (p.symbol = f.symbol /\ p.side # f.side /\ f.size > p.size) =>
                  /\ ret'.value = "none"
                  /\ Len(positions') = Len(positions)
                  /\ positions'[k].symbol = f.symbol
                  /\ positions'[k].side = f.side
                  /\ positions'[k].size = f.size - p.size
                  /\ positions'[k].entry_price = f.price
                  /\ positions'[k].leverage = arg'.leverage
                  /\ positions'[k].mmr = RatioScale \div (2 * arg'.leverage)
                  /\ \A j \in DOMAIN positions : j # k => positions'[j] = positions[j]
                  /\ balance' = balance
                                  + (IF p.side = BUY THEN 1 ELSE 0 - 1)
                                        * (f.price - p.entry_price) * p.size
                                  - f.fee]_vars

\* C21 witness: a long position of 1000 was flipped by a Sell of 3000 at
\* another price and another leverage, while another position was open; the
\* short position left has size 2000.
C21_Witness ==
    /\ ret # Pending /\ ret.value = "none"
    /\ arg.had /\ arg.before.side = BUY /\ arg.fill.side = SELL
    /\ arg.before.size = 1000 /\ arg.fill.size = 3000
    /\ arg.fill.price # arg.before.entry_price
    /\ arg.leverage # arg.before.leverage
    /\ Len(positions) = 2
    /\ \E k \in DOMAIN positions :
           positions[k].symbol = arg.fill.symbol /\ positions[k].side = SELL
               /\ positions[k].size = 2000

\* C22: no engine operation raises on valid-shape input: every on_order,
\* on_price_update and on_cancel returns, and on_order returns a record
\* whose status is filled, resting or rejected.
C22_NoOperationRaises ==
    /\ last.status # "raised"
    /\ last.op = "order" => last.status \in {"filled", "resting", "rejected"}

\* a fill as the data model describes it
WellFormedFill(fill) == fill.size > 0 /\ fill.price > 0 /\ fill.fee >= 0

\* C23: every fill the engine applies (market fill, limit fill on arrival,
\* resting-limit fill on a tick) has size > 0, price > 0 and fee >= 0: from
\* every state the engine reaches, whatever order or tick comes next.
C23_FillsAreWellFormed ==
    /\ \A intent \in Intents :
           LET d == on_order(TheEngine, intent, CHOOSE id \in Uuid4 : TRUE)
           IN  \A i \in DOMAIN d.applied : WellFormedFill(d.applied[i].fill)
    /\ \A symbol \in Symbols : \A mid \in MidsOf(symbol) :
           LET d == on_price_update(TheEngine, symbol, mid)
           IN  \A i \in DOMAIN d.applied : WellFormedFill(d.applied[i].fill)

\* C24: is_liquidatable(equity, total_mm, has_positions) is true exactly
\* when has_positions holds and equity < total_mm; and check_liquidations on
\* an account whose equity equals its total maintenance margin closes
\* nothing and leaves the account as it was.
C24_LiquidatableIffBelowMargin ==
    /\ (ret # Pending /\ arg.fn = "is_liquidatable") =>
           (ret.value <=> (arg.has_positions /\ arg.equity < arg.total_mm))
    /\ (ret # Pending /\ arg.fn = "check_liquidations"
           /\ Equity(arg.balance, arg.positions, arg.prices)
                  = TotalMM(arg.positions, arg.prices)) =>
           /\ ret.value.closed = <<>>
           /\ ret.value.balance = arg.balance
           /\ ret.value.positions = arg.positions

\* C24 witness: the loop was run on an account holding one position of size
\* 5000 whose equity is exactly its maintenance margin of 5000.00, and
\* closed nothing.
C24_Witness ==
    /\ ret # Pending
    /\ arg.fn = "check_liquidations"
    /\ Len(arg.positions) = 1 /\ arg.positions[1].size = 5000
    /\ TotalMM(arg.positions, arg.prices) = Dollars(5000)
    /\ Equity(arg.balance, arg.positions, arg.prices) = Dollars(5000)
    /\ ret.value.closed = <<>>

\* C25: check_liquidations on an account with no positions returns an empty
\* list and leaves balance, positions, open_orders and prices as they were,
\* whatever the balance (negative, zero, positive) and the resting orders.
C25_NoPositionsNoOp ==
    (ret # Pending /\ arg.fn = "check_liquidations" /\ arg.positions = <<>>) =>
        /\ ret.value.closed = <<>>
        /\ ret.value.balance = arg.balance
        /\ ret.value.positions = <<>>
        /\ ret.value.open_orders = arg.open_orders
        /\ ret.value.prices = arg.prices

\* C25 witness: the loop was run on an account with a negative balance, no
\* positions and two resting orders, with a price known.
C25_Witness ==
    /\ ret # Pending /\ arg.fn = "check_liquidations"
    /\ arg.positions = <<>>
    /\ arg.balance < 0
    /\ Len(arg.open_orders) = 2
    /\ arg.prices["BTC"] # NoPrice

\* C26: after any sequence of save_snapshot calls, load_snapshot returns an
\* AccountState equal to the one saved last (balance, every position, every
\* open order) and table snapshots holds exactly one row; load_snapshot
\* before any save returns None and the table is empty.
C26_LoadReturnsLastSaved ==
    /\ loaded # Pending => loaded.value = saved
    /\ Len(snapshots) = (IF nSaves = 0 THEN 0 ELSE 1)
    /\ nSaves = 0 <=> saved = None

\* C26 witness: two snapshots were saved with an event between them that
\* changed the account, and the load returned the second, which holds a
\* short position and a resting order.
C26_Witness ==
    /\ nSaves = 2 /\ loaded # Pending /\ ~IsNone(loaded.value)
    /\ nEvents = 1
    /\ loaded.value = EngineState(balance, positions, open_orders)
    /\ \E i \in DOMAIN loaded.value.positions : loaded.value.positions[i].side = SELL
    /\ loaded.value.open_orders # <<>>
    /\ loaded.value.balance # STARTING_BALANCE

\* C26 witness for the empty store: the load before any save returned None.
C26_WitnessEmpty == nSaves = 0 /\ loaded # Pending /\ IsNone(loaded.value)

C28_FeedLoopNeverEnds == fpc # "dead"

\* C28, the part that holds: the loop is left by an exception only, and
\* never by ConnectionClosed, OSError or JSONDecodeError; after a transport
\* failure comes the backoff and then the reconnect.
C28_TransportFailuresAreSurvived ==
    [][/\ fpc' = "dead" => (fpc = "recv" /\ fexc' \notin {"none", "JSONDecodeError",
                                                         "ConnectionClosed", "OSError"})
       /\ fpc = "backoff" => fpc' = "connect"
       /\ fpc = "dead" => FALSE]_vars

\* C29: for a fixed positive mid and a fixed size unit, calc_exec_price of a
\* Buy does not decrease and of a Sell does not increase as size_value
\* grows from 0, and at size_value 0 it is the mid.
C29_ExecPriceMonotone ==
    (ret # Pending /\ arg.fn = "calc_exec_price") =>
        /\ arg.side = BUY => ret.value.low <= ret.value.high
        /\ arg.side = SELL => ret.value.low >= ret.value.high
        /\ arg.low = 0 => ret.value.low = arg.mid_price
        /\ arg.high = 0 => ret.value.high = arg.mid_price

\* C29 witness: a Sell whose price falls strictly between two size values,
\* the smaller of them 0.
C29_Witness ==
    /\ ret # Pending
    /\ arg.fn = "calc_exec_price"
    /\ arg.side = SELL
    /\ arg.low = 0
    /\ arg.high > 0
    /\ ret.value.low = arg.mid_price
    /\ ret.value.high < ret.value.low

\* the step is the call on_price_update(symbol, price)
IsTick(symbol, price) ==
    LET d == on_price_update(TheEngine, symbol, price)
    IN  /\ nEvents' = nEvents + 1
        /\ last' = Call("price", NoId, d)
        /\ balance' = d.engine.balance
        /\ positions' = d.engine.positions
        /\ open_orders' = d.engine.open_orders
        /\ prices' = d.engine.prices

\* the resting orders on the symbol that the price crosses
Crossing(symbol, price) ==
    {i \in DOMAIN open_orders :
        /\ open_orders[i].symbol = symbol
        /\ \/ open_orders[i].side = BUY /\ price + HalfTick <= open_orders[i].limit_price
           \/ open_orders[i].side = SELL /\ price - HalfTick >= open_orders[i].limit_price}

\* C30: a tick that consumes no resting order (none on the symbol, or none
\* crossing) does not run the liquidation loop and changes nothing but
\* prices[symbol]; the loop runs on a tick exactly when the tick removed at
\* least one resting order.
C30_TickWithoutFillIsFrame ==
    [][\A symbol \in Symbols : \A price \in MidsOf(symbol) :
          IsTick(symbol, price) =>
              /\ Crossing(symbol, price) = {} =>
                     /\ ~last'.liq_ran
                     /\ balance' = balance
                     /\ positions' = positions
                     /\ open_orders' = open_orders
                     /\ prices' = [prices EXCEPT ![symbol] = price]
              /\ last'.liq_ran <=> Len(open_orders') < Len(open_orders)]_vars

\* C30 witness: a tick has returned without consuming an order and without
\* running the loop, on an account with a resting order, a position and
\* equity below its maintenance margin at the new price.
C30_Witness ==
    /\ last.op = "price"
    /\ last.status = "returned"
    /\ ~last.liq_ran
    /\ open_orders # <<>>
    /\ positions # <<>>
    /\ check_liquidations(balance, positions, prices).closed # <<>>

\* C31: each position closed by check_liquidations changes balance by exactly
\* sign(side) * (mark - entry) * size, with mark = prices[symbol] if present
\* else the entry price; no fee is charged, that position is removed, the
\* others stay as they were and in their order, and no position or order is
\* created.
C31_LiquidationCloseIsRpnlOnly ==
    [][positions' # positions =>
          \E k \in DOMAIN positions :
              LET p == positions[k]
                  mark == IF prices[p.symbol] # NoPrice THEN prices[p.symbol]
                          ELSE p.entry_price
                  sign == IF p.side = BUY THEN 1 ELSE 0 - 1
              IN  /\ balance' = balance + sign * (mark - p.entry_price) * p.size
                  /\ Len(positions') = Len(positions) - 1
                  /\ \A i \in DOMAIN positions' :
                         positions'[i] = positions[IF i < k THEN i ELSE i + 1]
                  /\ open_orders' = open_orders
                  /\ prices' = prices
                  /\ lclosed' = Append(lclosed, p.symbol)]_vars

\* C31 witness: the loop returned after closing one position at a mark of
\* its own, at a loss that the balance took.
C31_Witness ==
    /\ lpc = "returned"
    /\ Len(lclosed) = 1
    /\ prices[lclosed[1]] # NoPrice
    /\ balance < replay.balance
    /\ positions # <<>>

\* the upnl of position i at its current mark
UpnlAt(i) ==
    LET p == positions[i]
        mark == IF prices[p.symbol] # NoPrice THEN prices[p.symbol] ELSE p.entry_price
    IN  (IF p.side = BUY THEN 1 ELSE 0 - 1) * p.size * (mark - p.entry_price)

\* C32: each liquidating iteration closes the position whose upnl at the
\* current mark is smallest and, among several with that upnl, the first in
\* the insertion order of positions; the position closed is thereby a
\* function of the state.
C32_ClosesFirstWorst ==
    [][positions' # positions =>
          \E k \in DOMAIN positions :
              /\ lclosed' = Append(lclosed, positions[k].symbol)
              /\ \A i \in DOMAIN positions' :
                     positions'[i] = positions[IF i < k THEN i ELSE i + 1]
              /\ \A j \in DOMAIN positions : UpnlAt(k) <= UpnlAt(j)
              /\ \A j \in DOMAIN positions : j < k => UpnlAt(k) < UpnlAt(j)]_vars

\* C32 witness: of two positions that had the same upnl, a loss, the loop
\* closed the first one first.
C32_Witness ==
    /\ lpc = "returned"
    /\ Len(lstart) = 2
    /\ lclosed # <<>>
    /\ lclosed[1] = lstart[1].symbol
    /\ lstart[1].side = lstart[2].side
    /\ lstart[1].size = 5000
    /\ lstart[2].size = 5000
    /\ prices[lstart[1].symbol] # NoPrice
    /\ prices[lstart[1].symbol] = prices[lstart[2].symbol]
    /\ balance < replay.balance

\* C33: a resting order stays in open_orders with all its fields unchanged
\* until on_cancel with its id or an on_price_update for its own symbol at
\* which it crosses; no on_order, no tick on another symbol and no
\* liquidation removes or alters it; an order once removed never reappears.
C33_RestingOrderStaysUntilCancelOrCross ==
    [][/\ \A i \in DOMAIN open_orders :
              \/ \E j \in DOMAIN open_orders' : open_orders'[j] = open_orders[i]
              \/ /\ last'.op = "cancel"
                 /\ last'.arg_id = open_orders[i].order_id
                 /\ last'.status = "cancelled"
                 /\ nEvents' = nEvents + 1
              \/ \E price \in MidsOf(open_orders[i].symbol) :
                     /\ IsTick(open_orders[i].symbol, price)
                     /\ i \in Crossing(open_orders[i].symbol, price)
       /\ \A id \in issued \ BookIds(open_orders) : id \notin BookIds(open_orders')]_vars

\* C33 witness: an order was filled, the liquidation that followed closed
\* every position, and an order is still resting.
C33_Witness ==
    /\ last.op = "order"
    /\ last.status = "filled"
    /\ last.closes > 0
    /\ positions = <<>>
    /\ open_orders # <<>>

\* C34: check_liquidations leaves the equity of the account unchanged:
\* balance plus the sum of upnl at the current marks is, after every close
\* and at the return, what it was when the call began, however many
\* positions were closed; the total maintenance margin does not grow, and
\* it falls with every close of a position of positive size.
C34_LiquidationKeepsEquity ==
    /\ Equity(balance, positions, prices) = Equity(replay.balance, lstart, prices)
    /\ TotalMM(positions, prices) <= TotalMM(lstart, prices)
    /\ (\E i \in DOMAIN lstart :
            /\ lstart[i].size > 0
            /\ \A j \in DOMAIN positions : positions[j].symbol # lstart[i].symbol)
           => TotalMM(positions, prices) < TotalMM(lstart, prices)

\* C34 witness: the loop returned after closing two positions at marks of
\* their own, and the balance is not the one it began with.
C34_Witness ==
    /\ lpc = "returned"
    /\ Len(lclosed) = 2
    /\ \A i \in DOMAIN lstart : prices[lstart[i].symbol] # NoPrice /\ lstart[i].size > 0
    /\ balance # replay.balance

\* the book with the reduce_only flag of every order cleared
WithoutFlag(orders) == [i \in DOMAIN orders |-> [orders[i] EXCEPT !.reduce_only = FALSE]]

\* C35: the reduce_only flag has no effect on the engine: two engines in
\* equal states given intents that differ only in reduce_only return the
\* same result and reach the same balance, positions and prices, and the same
\* book apart from the flag stored on a resting order.
C35_ReduceOnlyIsIgnored ==
    (ret # Pending /\ arg.fn = "on_order") =>
        LET a == ret.value.plain
            b == ret.value.reduce_only
        IN  /\ a.status = b.status
            /\ a.reason = b.reason
            /\ a.fill = b.fill
            /\ a.order_id = b.order_id
            /\ a.engine.balance = b.engine.balance
            /\ a.engine.positions = b.engine.positions
            /\ a.engine.prices = b.engine.prices
            /\ WithoutFlag(a.engine.open_orders) = WithoutFlag(b.engine.open_orders)

\* C35 witness: a reduce_only order was filled on an engine without
\* positions and opened one.
C35_Witness ==
    /\ ret # Pending
    /\ arg.fn = "on_order"
    /\ arg.engine.positions = <<>>
    /\ ret.value.reduce_only.status = "filled"
    /\ Len(ret.value.reduce_only.engine.positions) = 1
    /\ ret.value.reduce_only.engine.positions[1].size > 0

\* C36: under every interleaving of websocket connects and disconnects with
\* a broadcast_state in flight, broadcast_state completes without raising, so
\* that a request the engine accepted is never answered with an error.
C36_BroadcastNeverRaises ==
    \A h \in Handlers : bcast[h].pc # "raised"

\* C37: calc_equity returns the balance plus the sum over the positions of the
\* upnl at each position's own symbol mark, the entry price standing in for a
\* missing mark; for positions on different symbols with different marks the
\* result is the per-symbol sum.
C37_EquityIsPerSymbolSum ==
    (ret # Pending /\ arg.fn = "calc_equity")
        => ret.value = Equity(arg.balance, arg.positions, arg.marks)

\* the nearest integer to num / den, den > 0, an exact half going away from
\* zero
HalfAwayFromZero(num, den) ==
    LET q == num \div den
        r == num % den
    IN  IF 2 * r < den THEN q
        ELSE IF 2 * r > den THEN q + 1
        ELSE IF num >= 0 THEN q + 1 ELSE q

\* C38: round_to_tick and round_to_step return x unchanged when step <= 0 and
\* otherwise round(x / step) * step, an exact half being rounded away from
\* zero (0.5 to 1, 2.5 to 3).
C38_RoundsHalfAwayFromZero ==
    (ret # Pending /\ arg.fn \in {"round_to_tick", "round_to_step"})
        => ret.value = IF arg.step <= 0 THEN arg.x
                       ELSE HalfAwayFromZero(arg.x, arg.step) * arg.step

\* Away from exact halves the two roundings agree, and a step <= 0 returns x:
\* the functions differ from C38 at exact halves with an even floor only.
C38_AgreesOffEvenHalves ==
    (ret # Pending /\ arg.fn \in {"round_to_tick", "round_to_step"})
        => \/ ret.value = IF arg.step <= 0 THEN arg.x
                          ELSE HalfAwayFromZero(arg.x, arg.step) * arg.step
           \/ /\ arg.step > 0
              /\ 2 * (arg.x % arg.step) = arg.step
              /\ ret.value = 2 * ((arg.x + arg.step) \div (2 * arg.step)) * arg.step

====
